---- MODULE Spec2Model ----
(***************************************************************************)
(* Exchange adapter layer of crypto-trading-mcp: the HTTP transport, the   *)
(* shared error mapper and the Binance, GateIO and Upbit adapters with     *)
(* their response normalizers.                                             *)
(*                                                                         *)
(* One adapter operation is two steps: Invoke runs the coroutine up to its *)
(* only suspension point (the network wait inside HTTPRequester.send) and  *)
(* Respond / TransportError run it from there to its end.                  *)
(***************************************************************************)
EXTENDS Integers, Sequences, FiniteSets, TLC

VARIABLES
    pc,         \* "idle" (no coroutine running) or "await" (suspended in client.request)
    call,       \* the invocation: exchange, op and arguments
    adapter,    \* the adapter get_factory(...).create_exchange() built for the invocation
    req,        \* the request the operation handed to its requester, as prepared for the wire
    net,        \* what the network did with it: delivered a response, or failed
    wire,       \* HTTP requests put on the wire by the current invocation
    response,   \* the HTTP response that send returned to the adapter
    outcome,    \* how the last invocation ended: a returned payload or a raised exception
    now,        \* the clock, epoch milliseconds
    result,     \* what the dispatcher tool gave its caller for the last invocation
    invoked,    \* number of adapter operations started
    issued,     \* number of HTTP requests put on the wire since construction
    repeated,   \* the current invocation has the same exchange, op and arguments as the one before
    nonces,     \* the nonces of the bearer tokens sent since construction, oldest first
    signing,    \* BinanceAuth.generate_signature taken alone: its arguments and its result
    conversion, \* iso_to_timestamp and timestamp_to_iso taken alone: arguments and results
    sessions,   \* the httpx.AsyncClient sessions opened since construction, oldest first
    tasks       \* concurrent tool calls taken alone: the objects built and each call's position

vars == <<pc, call, adapter, req, net, wire, response, outcome, result, now, invoked,
          issued, repeated, nonces, signing, conversion, sessions, tasks>>

-----------------------------------------------------------------------------
(* Bounds *)

MaxOrders == 2      \* longest order list in a response body
MaxDepth  == 2      \* longest ask or bid ladder in a response body
MaxCalls  == 2      \* invocations per behaviour
MaxTicks  == 1      \* clock advances per behaviour
MaxTasks  == 2      \* tool calls in flight at once
MaxText   == 3      \* longest query string or body handed to generate_signature alone

\* Instants are epoch milliseconds less 1718000000000, which keeps them within
\* the integers TLC computes with.
ClockStart == 241981000
ClockStep  == 1500

-----------------------------------------------------------------------------
(* Python values.  Every value that crosses the model (a parsed JSON       *)
(* document, a request parameter, a field of a canonical entity) is a      *)
(* record of one shape, tagged with its Python type.                       *)

None    == [t |-> "NoneType", s |-> "", n |-> 0, a |-> <<>>, o |-> <<>>]
Str(x)  == [t |-> "str",  s |-> x,  n |-> 0, a |-> <<>>, o |-> <<>>]
Num(x)  == [t |-> "num",  s |-> "", n |-> x, a |-> <<>>, o |-> <<>>]
Bool(x) == [t |-> "bool", s |-> "", n |-> IF x THEN 1 ELSE 0, a |-> <<>>, o |-> <<>>]
List(x) == [t |-> "list", s |-> "", n |-> 0, a |-> x, o |-> <<>>]
Dict(x) == [t |-> "dict", s |-> "", n |-> 0, a |-> <<>>, o |-> x]   \* x: sequence of <<key, value>>

\* Result of evaluating a Python expression: a value, or the class of the exception raised.
Ok(v)    == [exc |-> "", v |-> v]
Raise(e) == [exc |-> e, v |-> None]

\* The first exception raised when the expressions rs are evaluated left to right.
RECURSIVE FirstExc(_)
FirstExc(rs) ==
    IF rs = <<>> THEN ""
    ELSE IF Head(rs).exc # "" THEN Head(rs).exc
    ELSE FirstExc(Tail(rs))

HasKey(d, k) == \E i \in 1..Len(d.o) : d.o[i][1] = k
Lookup(d, k) == d.o[CHOOSE i \in 1..Len(d.o) : d.o[i][1] = k][2]

\* data[field] with a string subscript
getitem(data, field) ==
    IF data.t = "dict"
    THEN IF HasKey(data, field) THEN Ok(Lookup(data, field)) ELSE Raise("KeyError")
    ELSE Raise("TypeError")

\* data.get(field, default)
get(data, field, default) ==
    IF data.t = "dict"
    THEN IF HasKey(data, field) THEN Ok(Lookup(data, field)) ELSE Ok(default)
    ELSE Raise("AttributeError")

\* data[0]
first(data) ==
    IF data.t = "list"
    THEN IF data.a # <<>> THEN Ok(data.a[1]) ELSE Raise("IndexError")
    ELSE IF data.t = "dict" THEN Raise("KeyError")
    ELSE IF data.t = "str" THEN IF data.s # "" THEN Ok(data) ELSE Raise("IndexError")
    ELSE Raise("TypeError")

\* bool(x)
truthy(x) ==
    CASE x.t = "NoneType" -> FALSE
      [] x.t = "str"  -> x.s # ""
      [] x.t = "num"  -> x.n # 0
      [] x.t = "bool" -> x.n # 0
      [] x.t = "list" -> x.a # <<>>
      [] x.t = "dict" -> x.o # <<>>

\* Decimal literals the exchanges send for prices and quantities.
NumLits == <<"0", "1", "2", "3">>
NumOf(s) == (CHOOSE i \in 1..Len(NumLits) : NumLits[i] = s) - 1

\* float(x)
float(x) ==
    LET IsNumLit(s) == \E i \in 1..Len(NumLits) : NumLits[i] = s
    IN
        CASE x.t = "num"  -> Ok(Num(x.n))
          [] x.t = "bool" -> Ok(Num(x.n))
          [] x.t = "str"  -> IF IsNumLit(x.s) THEN Ok(Num(NumOf(x.s))) ELSE Raise("ValueError")
          [] OTHER        -> Raise("TypeError")

\* str(x) of a scalar
str(x) ==
    CASE x.t = "str" -> Str(x.s)
      [] x.t = "num" -> Str(ToString(x.n))
      [] x.t = "NoneType" -> Str("None")
      [] OTHER -> Str("<repr>")

\* x.lower()
lower(x) ==
    IF x.t # "str" THEN Raise("AttributeError")
    ELSE Ok(Str(CASE x.s = "LIMIT" -> "limit"
                  [] x.s = "MARKET" -> "market"
                  [] x.s = "STOP_LOSS" -> "stop_loss"
                  [] OTHER -> x.s))

\* the elements a for-loop over x visits
iter(x) ==
    CASE x.t = "list" -> Ok(x.a)
      [] x.t = "dict" -> Ok([i \in 1..Len(x.o) |-> Str(x.o[i][1])])
      [] x.t = "str"  -> Ok(IF x.s = "" THEN <<>> ELSE <<x>>)
      [] OTHER        -> Raise("TypeError")

-----------------------------------------------------------------------------
(* httpx.Response *)

\* response.json(): the content is absent, not JSON, or a JSON document
json(r) ==
    IF r.content.raw = "json" THEN Ok(r.content.j) ELSE Raise("JSONDecodeError")

is_success(r) == r.status_code \in 200..299
is_error(r)   == r.status_code \in 400..599

-----------------------------------------------------------------------------
(* exceptions.py *)

CryptoAPIException(cls, code, message, t) ==
    [kind |-> "raise", cls |-> cls, code |-> code, message |-> message,
     timestamp |-> t, success |-> FALSE, data |-> None]

Faults == {"CryptoAPIException", "AuthenticationException", "BadRequestException",
           "NotFoundException", "RateLimitException", "InternalServerErrorException"}

\* an exception that is not part of the fault hierarchy
Error(cls) ==
    [kind |-> "raise", cls |-> cls, code |-> "", message |-> None,
     timestamp |-> 0, success |-> FALSE, data |-> None]

\* a normal return
Return(data) ==
    [kind |-> "return", cls |-> "", code |-> "", message |-> None,
     timestamp |-> 0, success |-> TRUE, data |-> data]

NoOutcome ==
    [kind |-> "none", cls |-> "", code |-> "", message |-> None,
     timestamp |-> 0, success |-> FALSE, data |-> None]

-----------------------------------------------------------------------------
(* CryptoExchange: the shared error mapper *)

\* a call that leaves out the required message_fields argument
MISSING == "<missing>"

RECURSIVE walk(_, _)
walk(data, fields) ==
    IF fields = <<>> THEN Ok(data)
    ELSE LET d == getitem(data, Head(fields))
         IN  IF d.exc # "" THEN d ELSE walk(d.v, Tail(fields))

_get_error_message(r, message_fields) ==
    IF message_fields = MISSING THEN Raise("TypeError")
    ELSE LET data   == json(r)
             \* message_fields.strip().split(".")
             fields == CASE message_fields = "msg"           -> <<"msg">>
                         [] message_fields = "message"       -> <<"message">>
                         [] message_fields = "error.message" -> <<"error", "message">>
             d      == IF data.exc # "" THEN data ELSE walk(data.v, fields)
         IN  IF d.exc \in {"AttributeError", "KeyError", "JSONDecodeError"}
             THEN Ok(Str(""))
             ELSE d

\* message or default
or(message, default) == IF truthy(message) THEN message ELSE Str(default)

\* the mapper with the 429 branch lost: a rate-limited response falls through to the
\* generic fault
_raise_for_failed_response_no429(status_code, message, t) ==
    CASE status_code = 401 ->
            CryptoAPIException("AuthenticationException", "401",
                               or(message, "Authentication failed"), t)
      [] status_code = 400 ->
            CryptoAPIException("BadRequestException", "400", or(message, "Bad Request"), t)
      [] status_code = 404 ->
            CryptoAPIException("NotFoundException", "404", or(message, "Not Found"), t)
      [] status_code = 500 ->
            CryptoAPIException("InternalServerErrorException", "500",
                               or(message, "Internal Server Error"), t)
      [] OTHER ->
            CryptoAPIException("CryptoAPIException", ToString(status_code), message, t)

_raise_for_failed_response(status_code, message, t) ==
    CASE status_code = 401 ->
            CryptoAPIException("AuthenticationException", "401",
                               or(message, "Authentication failed"), t)
      [] status_code = 400 ->
            CryptoAPIException("BadRequestException", "400", or(message, "Bad Request"), t)
      [] status_code = 404 ->
            CryptoAPIException("NotFoundException", "404", or(message, "Not Found"), t)
      [] status_code = 429 ->
            CryptoAPIException("RateLimitException", "429",
                               or(message, "Rate Limit Exceeded"), t)
      [] status_code = 500 ->
            CryptoAPIException("InternalServerErrorException", "500",
                               or(message, "Internal Server Error"), t)
      [] OTHER ->
            CryptoAPIException("CryptoAPIException", ToString(status_code), message, t)

\* self._raise_for_failed_response(response.status_code, self._get_error_message(response, ...)):
\* the argument is evaluated first, and an exception it raises leaves the call.
failed(r, message_fields, t) ==
    LET m == _get_error_message(r, message_fields)
    IN  IF m.exc # "" THEN Error(m.exc)
        ELSE _raise_for_failed_response(r.status_code, m.v, t)

-----------------------------------------------------------------------------
(* Helpers for the normalizers *)

\* f(e) where e may itself have raised
floatOf(r) == IF r.exc # "" THEN r ELSE float(r.v)
\* status_map.get(key, default) / status_map[key] on a dict literal with string keys
dict_get(map, key, default) ==
    IF key.t \in {"list", "dict"} THEN Raise("TypeError")
    ELSE IF key.t = "str" /\ HasKey(map, key.s) THEN Ok(Lookup(map, key.s))
    ELSE Ok(default)

\* map[key] that gives the key itself when the map has no such key
dict_index_lenient(map, key) ==
    IF key.t \in {"list", "dict"} THEN Raise("TypeError")
    ELSE IF key.t = "str" /\ HasKey(map, key.s) THEN Ok(Lookup(map, key.s))
    ELSE Ok(key)

\* map[key]
dict_index(map, key) ==
    IF key.t \in {"list", "dict"} THEN Raise("TypeError")
    ELSE IF key.t = "str" /\ HasKey(map, key.s) THEN Ok(Lookup(map, key.s))
    ELSE Raise("KeyError")

\* [F(x) for x in xs]: rs are the evaluations of F in order
collect(rs) ==
    IF FirstExc(rs) # "" THEN Raise(FirstExc(rs))
    ELSE Ok([i \in 1..Len(rs) |-> rs[i].v])

\* itertools.zip_longest with the last level of the shorter side as the fill value
RECURSIVE zip_longest(_, _, _, _)
zip_longest(xs, ys, lastx, lasty) ==
    IF xs = <<>> /\ ys = <<>> THEN <<>>
    ELSE LET x == IF xs = <<>> THEN lastx ELSE Head(xs)
             y == IF ys = <<>> THEN lasty ELSE Head(ys)
         IN  <<<<x, y>>>> \o zip_longest(IF xs = <<>> THEN xs ELSE Tail(xs),
                                         IF ys = <<>> THEN ys ELSE Tail(ys), x, y)

zip_padded(xs, ys) ==
    IF xs = <<>> \/ ys = <<>> THEN <<>> ELSE zip_longest(xs, ys, xs[1], ys[1])

RECURSIVE zip(_, _)
zip(xs, ys) ==
    IF xs = <<>> \/ ys = <<>> THEN <<>>
    ELSE <<<<Head(xs), Head(ys)>>>> \o zip(Tail(xs), Tail(ys))

\* a returned value, or the exception that left the method
finish(r) == IF r.exc # "" THEN Error(r.exc) ELSE Return(r.v)

Order(order_id, side, amount, price, order_type, status, executed_volume, remaining_volume, created_at) ==
    [order_id |-> order_id, side |-> side, amount |-> amount, price |-> price,
     order_type |-> order_type, status |-> status,
     executed_volume |-> executed_volume, remaining_volume |-> remaining_volume,
     created_at |-> created_at]

OrderBookItem(ask_price, ask_quantity, bid_price, bid_quantity) ==
    [ask_price |-> ask_price, ask_quantity |-> ask_quantity,
     bid_price |-> bid_price, bid_quantity |-> bid_quantity]

\* OrderBookItem(float(ask[0]), float(ask[1]), float(bid[0]), float(bid[1]))
index(x, i) ==
    IF x.t = "list" THEN IF Len(x.a) >= i THEN Ok(x.a[i]) ELSE Raise("IndexError")
    ELSE IF x.t = "dict" THEN Raise("KeyError")
    ELSE Raise("TypeError")

\* [OrderBookItem(...) for ask, bid in zip(data["asks"], data["bids"])]
ladder_items(data) ==
    LET ladder_item(ask, bid) ==
        LET ap == floatOf(index(ask, 1))
            aq == floatOf(index(ask, 2))
            bp == floatOf(index(bid, 1))
            bq == floatOf(index(bid, 2))
            e  == FirstExc(<<ap, aq, bp, bq>>)
        IN  IF e # "" THEN Raise(e) ELSE Ok(OrderBookItem(ap.v, aq.v, bp.v, bq.v))
    IN
        LET asks == getitem(data, "asks")
            bids == IF asks.exc # "" THEN asks ELSE getitem(data, "bids")
            xs   == IF bids.exc # "" THEN bids ELSE iter(asks.v)
            ys   == IF xs.exc # "" THEN xs ELSE iter(bids.v)
        IN  IF ys.exc # "" THEN Raise(ys.exc)
            ELSE LET ps == zip(xs.v, ys.v)
                 IN  collect([i \in 1..Len(ps) |-> ladder_item(ps[i][1], ps[i][2])])

Request(method, url, params, body) ==
    [method |-> method, url |-> url, params |-> params, json |-> body]

-----------------------------------------------------------------------------
(* Binance *)

\* the status map with PARTIALLY_FILLED left out
Binance_status_map_short ==
    Dict(<< <<"NEW", Str("wait")>>, <<"PENDING_NEW", Str("wait")>>,
            <<"FILLED", Str("done")>> >>)

Binance_status_map ==
    Dict(<< <<"NEW", Str("wait")>>, <<"PENDING_NEW", Str("wait")>>,
            <<"PARTIALLY_FILLED", Str("wait")>>, <<"FILLED", Str("done")>> >>)

\* the wire side passed on as it came
Binance_side_raw(wside) == wside

\* "bid" if data["side"] == "BUY" else "ask"
Binance_side(wside) == IF wside = Str("BUY") THEN Str("bid") ELSE Str("ask")

Binance_convert_to_order(data) ==
    LET strOf(r)   == IF r.exc # "" THEN r ELSE Ok(str(r.v))
    IN
        LET lowerOf(r) == IF r.exc # "" THEN r ELSE lower(r.v)
        IN
            LET order_id == strOf(getitem(data, "orderId"))
                wside    == getitem(data, "side")
                price    == floatOf(get(data, "price", Num(0)))
                type     == lowerOf(getitem(data, "type"))
                amount   == floatOf(getitem(data, "origQty"))
                wstatus  == getitem(data, "status")
                status   == IF wstatus.exc # "" THEN wstatus
                            ELSE dict_get(Binance_status_map, wstatus.v, Str("canceled"))
                executed == floatOf(get(data, "executedQty", Num(0)))
                orig     == floatOf(get(data, "origQty", Num(0)))
                created  == getitem(data, "time")
                e == FirstExc(<<order_id, wside, price, type, amount, status, executed,
                                orig, executed, created>>)
            IN  IF e # "" THEN Raise(e)
                ELSE Ok(Order(order_id.v,
                              Binance_side(wside.v),
                              amount.v, price.v, type.v, status.v, executed.v,
                              Num(orig.v.n - executed.v.n), created.v))

Binance_get_symbols_request(c, t) ==
    Request("GET", "/api/v3/exchangeInfo", None, None)

\* Binance.get_symbols without the test of status
Binance_symbol_any(symbol_info) ==
    LET symbol == getitem(symbol_info, "symbol")
        name   == getitem(symbol_info, "baseAsset")
    IN  IF FirstExc(<<symbol, name>>) # ""
        THEN [exc |-> FirstExc(<<symbol, name>>), keep |-> FALSE, v |-> None]
        ELSE [exc |-> "", keep |-> TRUE, v |-> [symbol |-> symbol.v, name |-> name.v]]

Binance_symbol(symbol_info) ==
    LET status == getitem(symbol_info, "status")
        symbol == getitem(symbol_info, "symbol")
        name   == getitem(symbol_info, "baseAsset")
    IN  IF status.exc # "" THEN [exc |-> status.exc, keep |-> FALSE, v |-> None]
        ELSE IF status.v # Str("TRADING") THEN [exc |-> "", keep |-> FALSE, v |-> None]
        ELSE IF FirstExc(<<symbol, name>>) # ""
        THEN [exc |-> FirstExc(<<symbol, name>>), keep |-> FALSE, v |-> None]
        ELSE [exc |-> "", keep |-> TRUE, v |-> [symbol |-> symbol.v, name |-> name.v]]

Binance_kept(x) == x.keep

Binance_get_symbols(c, r, t) ==
    IF ~is_success(r) THEN failed(r, "msg", t)
    ELSE LET data  == json(r)
             infos == IF data.exc # "" THEN data ELSE getitem(data.v, "symbols")
             xs    == IF infos.exc # "" THEN infos ELSE iter(infos.v)
         IN  IF xs.exc # "" THEN Error(xs.exc)
             ELSE LET rs == [i \in 1..Len(xs.v) |-> Binance_symbol(xs.v[i])]
                  IN  IF FirstExc(rs) # "" THEN Error(FirstExc(rs))
                      ELSE finish(collect(SelectSeq(rs, Binance_kept)))

Binance_get_tickers_request(c, t) ==
    Request("GET", "/api/v3/ticker/24hr", Dict(<< <<"symbol", Str(c.symbol)>> >>), None)

Binance_get_tickers(c, r, t) ==
    IF ~is_success(r) THEN failed(r, "msg", t)
    ELSE LET data == json(r)
             g(k) == IF data.exc # "" THEN data ELSE getitem(data.v, k)
             symbol == g("symbol")
             last   == floatOf(g("lastPrice"))
             volume == floatOf(g("volume"))
             open   == floatOf(g("openPrice"))
             high   == floatOf(g("highPrice"))
             low    == floatOf(g("lowPrice"))
             pct    == floatOf(g("priceChangePercent"))
             change == floatOf(g("priceChange"))
             quote  == floatOf(g("quoteVolume"))
             e == FirstExc(<<symbol, last, volume, open, high, low, pct, change, quote>>)
         IN  IF e # "" THEN Error(e)
             ELSE Return([symbol |-> symbol.v, trade_price |-> last.v,
                          trade_volume |-> volume.v, trade_timestamp |-> Num(t),
                          opening_price |-> open.v, high_price |-> high.v,
                          low_price |-> low.v, change_percentage |-> pct.v,
                          change_price |-> change.v, acc_trade_volume |-> quote.v,
                          acc_trade_price |-> Num(quote.v.n * last.v.n),
                          timestamp |-> Num(t)])

Binance_get_balances_request(c, t) ==
    Request("GET", "/api/v3/account", Dict(<< <<"timestamp", Num(t)>> >>), None)

Binance_get_balances(c, r, t) ==
    LET Binance_balance(balance) ==
        LET asset  == getitem(balance, "asset")
            free   == floatOf(getitem(balance, "free"))
            locked == floatOf(getitem(balance, "locked"))
            e == FirstExc(<<asset, free, locked>>)
        IN  IF e # "" THEN Raise(e)
            ELSE Ok([currency |-> asset.v, balance |-> free.v, locked |-> locked.v,
                     avg_buy_price |-> None, avg_buy_price_modified |-> Bool(FALSE),
                     unit_currency |-> None])
    IN
        IF ~is_success(r) THEN failed(r, "msg", t)
        ELSE LET data == json(r)
                 bs   == IF data.exc # "" THEN data ELSE getitem(data.v, "balances")
                 xs   == IF bs.exc # "" THEN bs ELSE iter(bs.v)
             IN  IF xs.exc # "" THEN Error(xs.exc)
                 ELSE finish(collect([i \in 1..Len(xs.v) |-> Binance_balance(xs.v[i])]))

Binance_get_open_orders_request(c, t) ==
    Request("GET", "/api/v3/openOrders",
            Dict(<< <<"symbol", Str(c.symbol)>>, <<"timestamp", Num(t)>> >>), None)

Binance_get_open_orders(c, r, t) ==
    IF ~is_success(r) THEN failed(r, "msg", t)
    ELSE LET data == json(r)
             xs   == IF data.exc # "" THEN data ELSE iter(data.v)
         IN  IF xs.exc # "" THEN Error(xs.exc)
             ELSE finish(collect([i \in 1..Len(xs.v) |-> Binance_convert_to_order(xs.v[i])]))

Binance_get_closed_orders_request(c, t) ==
    Request("GET", "/api/v3/allOrders",
            Dict(<< <<"symbol", Str(c.symbol)>>, <<"limit", Num(c.limit)>>,
                    <<"timestamp", Num(t)>> >>
                 \o (IF c.start_date # 0 THEN << <<"startTime", Num(c.start_date)>> >> ELSE <<>>)
                 \o (IF c.end_date # 0 THEN << <<"endTime", Num(c.end_date)>> >> ELSE <<>>)),
            None)

\* one pass of a comprehension without the filter: every order is converted
Binance_closed_order_any(order) ==
    LET status == getitem(order, "status")
    IN  IF status.exc # "" THEN [exc |-> status.exc, keep |-> FALSE, v |-> None]
        ELSE LET o == Binance_convert_to_order(order)
             IN  [exc |-> o.exc, keep |-> o.exc = "", v |-> o.v]

\* one pass of the comprehension: the filter reads order["status"], then the order is converted
Binance_closed_order(order) ==
    LET Binance_closed_statuses ==
        {Str("FILLED"), Str("CANCELED"), Str("REJECTED"), Str("EXPIRED"), Str("EXPIRED_IN_MATCH")}
    IN
        LET status == getitem(order, "status")
        IN  IF status.exc # "" THEN [exc |-> status.exc, keep |-> FALSE, v |-> None]
            ELSE IF status.v \notin Binance_closed_statuses
            THEN [exc |-> "", keep |-> FALSE, v |-> None]
            ELSE LET o == Binance_convert_to_order(order)
                 IN  [exc |-> o.exc, keep |-> o.exc = "", v |-> o.v]

Binance_get_closed_orders(c, r, t) ==
    IF ~is_success(r) THEN failed(r, MISSING, t)
    ELSE LET data == json(r)
             xs   == IF data.exc # "" THEN data ELSE iter(data.v)
         IN  IF xs.exc # "" THEN Error(xs.exc)
             ELSE LET rs == [i \in 1..Len(xs.v) |-> Binance_closed_order(xs.v[i])]
                  IN  IF FirstExc(rs) # "" THEN Error(FirstExc(rs))
                      ELSE finish(collect(SelectSeq(rs, Binance_kept)))

Binance_get_order_request(c, t) ==
    Request("GET", "/api/v3/order",
            Dict(<< <<"symbol", Str(c.symbol)>>, <<"orderId", Str(c.order_id)>>,
                    <<"timestamp", Num(t)>> >>), None)

Binance_get_order(c, r, t) ==
    IF ~is_success(r) THEN failed(r, MISSING, t)
    ELSE LET data == json(r)
         IN  IF data.exc # "" THEN Error(data.exc)
             ELSE finish(Binance_convert_to_order(data.v))

Binance_get_order_book_request(c, t) ==
    Request("GET", "/api/v3/depth", Dict(<< <<"symbol", Str(c.symbol)>> >>), None)

Binance_get_order_book(c, r, t) ==
    IF ~is_success(r) THEN failed(r, MISSING, t)
    ELSE LET data  == json(r)
             items == IF data.exc # "" THEN data ELSE ladder_items(data.v)
         IN  IF items.exc # "" THEN Error(items.exc)
             ELSE Return([symbol |-> Str(c.symbol), timestamp |-> Num(t), items |-> items.v])

Binance_place_order_request(c, t) ==
    \* x.upper()
    LET upper(s) ==
        CASE s = "limit" -> "LIMIT"
          [] s = "market" -> "MARKET"
          [] OTHER -> s
    IN
        Request("POST", "/api/v3/order",
                Dict(<< <<"symbol", Str(c.symbol)>>,
                        <<"side", Str(IF c.side = "bid" THEN "BUY" ELSE "SELL")>>,
                        <<"quantity", str(Num(c.amount))>>,
                        <<"price", str(Num(c.price))>>,
                        <<"type", Str(upper(c.order_type))>>,
                        <<"timestamp", Num(t)>> >>
                     \o (IF c.order_type = "limit" THEN << <<"timeInForce", Str("GTC")>> >>
                         ELSE IF c.order_type = "market" THEN << <<"timeInForce", Str("IOC")>> >>
                         ELSE <<>>)),
                None)

\* data["time"] = data["transactTime"]; return self._convert_to_order(data)
Binance_transacted(r) ==
    \* data[key] = value
    LET setitem(data, key, value) ==
        IF data.t # "dict" THEN Raise("TypeError")
        ELSE IF HasKey(data, key)
        THEN Ok(Dict([i \in 1..Len(data.o) |->
                        IF data.o[i][1] = key THEN <<key, value>> ELSE data.o[i]]))
        ELSE Ok(Dict(Append(data.o, <<key, value>>)))
    IN
        LET data  == json(r)
            tt    == IF data.exc # "" THEN data ELSE getitem(data.v, "transactTime")
            data2 == IF tt.exc # "" THEN tt ELSE setitem(data.v, "time", tt.v)
        IN  IF data2.exc # "" THEN Error(data2.exc)
            ELSE finish(Binance_convert_to_order(data2.v))

Binance_place_order(c, r, t) ==
    IF ~is_success(r) THEN failed(r, MISSING, t) ELSE Binance_transacted(r)

Binance_cancel_order_request(c, t) ==
    Request("DELETE", "/api/v3/order",
            Dict(<< <<"symbol", Str(c.symbol)>>, <<"orderId", Str(c.order_id)>>,
                    <<"timestamp", Num(t)>> >>), None)

Binance_cancel_order(c, r, t) ==
    IF ~is_success(r) THEN failed(r, MISSING, t) ELSE Binance_transacted(r)

-----------------------------------------------------------------------------
(* GateIO *)

GateIO_convert_to_order(data) ==
    LET GateIO_status_map ==
        Dict(<< <<"open", Str("wait")>>, <<"closed", Str("done")>>,
                <<"cancelled", Str("cancel")>> >>)
    IN
        \* "bid" if data["side"] == "buy" else "ask"
        LET GateIO_side(wside) == IF wside = Str("buy") THEN Str("bid") ELSE Str("ask")
        IN
            LET order_id == getitem(data, "id")
                wside    == getitem(data, "side")
                amount   == floatOf(getitem(data, "amount"))
                price    == floatOf(getitem(data, "price"))
                type     == getitem(data, "type")
                wstatus  == getitem(data, "status")
                status   == IF wstatus.exc # "" THEN wstatus
                            ELSE dict_index(GateIO_status_map, wstatus.v)
                executed == floatOf(getitem(data, "filled_amount"))
                left     == floatOf(getitem(data, "left"))
                created  == getitem(data, "create_time_ms")
                e == FirstExc(<<order_id, wside, amount, price, type, status, executed,
                                left, created>>)
            IN  IF e # "" THEN Raise(e)
                ELSE Ok(Order(order_id.v,
                              GateIO_side(wside.v),
                              amount.v, price.v, type.v, status.v, executed.v, left.v,
                              created.v))

\* params={"currency_pair": symbol} if symbol else None
GateIO_pair_or_none(symbol) ==
    IF symbol # "" THEN Dict(<< <<"currency_pair", Str(symbol)>> >>) ELSE None

GateIO_get_symbols_request(c, t) ==
    Request("GET", "/api/v4/spot/currency_pairs", None, None)

GateIO_get_symbols(c, r, t) ==
    LET GateIO_symbol(item) ==
        LET id   == getitem(item, "id")
            name == getitem(item, "base_name")
            e    == FirstExc(<<id, name>>)
        IN  IF e # "" THEN Raise(e) ELSE Ok([symbol |-> id.v, name |-> name.v])
    IN
        IF is_error(r) THEN failed(r, "message", t)
        ELSE LET data == json(r)
                 xs   == IF data.exc # "" THEN data ELSE iter(data.v)
             IN  IF xs.exc # "" THEN Error(xs.exc)
                 ELSE finish(collect([i \in 1..Len(xs.v) |-> GateIO_symbol(xs.v[i])]))

GateIO_get_tickers_request(c, t) ==
    Request("GET", "/api/v4/spot/tickers", GateIO_pair_or_none(c.symbol), None)

GateIO_ticker(item, t) ==
    LET pair   == getitem(item, "currency_pair")
        last   == floatOf(getitem(item, "last"))
        volume == floatOf(getitem(item, "base_volume"))
        high   == floatOf(getitem(item, "high_24h"))
        low    == floatOf(getitem(item, "low_24h"))
        pct    == floatOf(getitem(item, "change_percentage"))
        quote  == floatOf(getitem(item, "quote_volume"))
        e == FirstExc(<<pair, last, volume, high, low, pct, quote>>)
    IN  IF e # "" THEN Raise(e)
        ELSE Ok([symbol |-> pair.v, trade_timestamp |-> Num(t), trade_price |-> last.v,
                 trade_volume |-> volume.v, opening_price |-> None, high_price |-> high.v,
                 low_price |-> low.v, change_percentage |-> pct.v, change_price |-> None,
                 acc_trade_volume |-> quote.v,
                 acc_trade_price |-> Num(quote.v.n * last.v.n), timestamp |-> Num(t)])

GateIO_get_tickers(c, r, t) ==
    IF is_error(r) THEN failed(r, "message", t)
    ELSE LET data == json(r)
             xs   == IF data.exc # "" THEN data ELSE iter(data.v)
         IN  IF xs.exc # "" THEN Error(xs.exc)
             ELSE finish(collect([i \in 1..Len(xs.v) |-> GateIO_ticker(xs.v[i], t)]))

GateIO_get_balances_request(c, t) ==
    Request("GET", "/api/v4/spot/accounts", None, None)

GateIO_get_balances(c, r, t) ==
    LET GateIO_balance(item) ==
        LET currency == getitem(item, "currency")
            avail    == floatOf(getitem(item, "available"))
            locked   == floatOf(getitem(item, "locked"))
            e == FirstExc(<<currency, avail, locked>>)
        IN  IF e # "" THEN Raise(e)
            ELSE Ok([currency |-> currency.v, balance |-> avail.v, locked |-> locked.v,
                     avg_buy_price |-> None, avg_buy_price_modified |-> None,
                     unit_currency |-> None])
    IN
        IF is_error(r) THEN failed(r, "message", t)
        ELSE LET data == json(r)
                 xs   == IF data.exc # "" THEN data ELSE iter(data.v)
             IN  IF xs.exc # "" THEN Error(xs.exc)
                 ELSE finish(collect([i \in 1..Len(xs.v) |-> GateIO_balance(xs.v[i])]))

GateIO_orders(r) ==
    LET data == json(r)
        xs   == IF data.exc # "" THEN data ELSE iter(data.v)
    IN  IF xs.exc # "" THEN Error(xs.exc)
        ELSE finish(collect([i \in 1..Len(xs.v) |-> GateIO_convert_to_order(xs.v[i])]))

GateIO_get_open_orders_request(c, t) ==
    Request("GET", "/api/v4/spot/orders",
            Dict(<< <<"currency_pair", Str(c.symbol)>>, <<"page", Num(c.page)>>,
                    <<"limit", Num(c.limit)>>, <<"status", Str("open")>> >>), None)

GateIO_get_open_orders(c, r, t) ==
    IF is_error(r) THEN failed(r, "message", t) ELSE GateIO_orders(r)

GateIO_get_closed_orders_request(c, t) ==
    Request("GET", "/api/v4/spot/orders",
            Dict(<< <<"currency_pair", Str(c.symbol)>>, <<"page", Num(c.page)>>,
                    <<"limit", Num(c.limit)>>, <<"status", Str("finished")>> >>
                 \o (IF c.start_date # 0 THEN << <<"from", Num(c.start_date \div 1000)>> >>
                     ELSE <<>>)
                 \o (IF c.end_date # 0 THEN << <<"to", Num(c.end_date \div 1000)>> >>
                     ELSE <<>>)),
            None)

GateIO_get_closed_orders(c, r, t) ==
    IF is_error(r) THEN failed(r, "message", t) ELSE GateIO_orders(r)

GateIO_get_order_request(c, t) ==
    Request("GET", "/api/v4/spot/orders/" \o c.order_id, GateIO_pair_or_none(c.symbol), None)

GateIO_order(r) ==
    LET data == json(r)
    IN  IF data.exc # "" THEN Error(data.exc)
        ELSE finish(GateIO_convert_to_order(data.v))

GateIO_get_order(c, r, t) ==
    IF is_error(r) THEN failed(r, "message", t) ELSE GateIO_order(r)

GateIO_get_order_book_request(c, t) ==
    Request("GET", "/api/v4/spot/order_book",
            Dict(<< <<"currency_pair", Str(c.symbol)>> >>), None)

GateIO_get_order_book(c, r, t) ==
    IF is_error(r) THEN failed(r, "message", t)
    ELSE LET data    == json(r)
             current == IF data.exc # "" THEN data ELSE getitem(data.v, "current")
             items   == IF current.exc # "" THEN current ELSE ladder_items(data.v)
         IN  IF items.exc # "" THEN Error(items.exc)
             ELSE Return([symbol |-> Str(c.symbol), timestamp |-> current.v,
                          items |-> items.v])

\* place_order sending a side that is neither bid nor ask as it is
GateIO_place_order_request_validating(c, t) ==
    Request("POST", "/api/v4/spot/orders", None,
            Dict(<< <<"currency_pair", Str(c.symbol)>>,
                    <<"side", Str(IF c.side = "bid" THEN "buy" ELSE IF c.side = "ask" THEN "sell" ELSE c.side)>>,
                    <<"amount", str(Num(c.amount))>>,
                    <<"price", str(Num(c.price))>>,
                    <<"type", Str(c.order_type)>>,
                    <<"time_in_force", Str(IF c.order_type = "limit" THEN "gtc" ELSE "ioc")>> >>))

GateIO_place_order_request(c, t) ==
    Request("POST", "/api/v4/spot/orders", None,
            Dict(<< <<"currency_pair", Str(c.symbol)>>,
                    <<"side", Str(IF c.side = "bid" THEN "buy" ELSE "sell")>>,
                    <<"amount", str(Num(c.amount))>>,
                    <<"price", str(Num(c.price))>>,
                    <<"type", Str(c.order_type)>>,
                    <<"time_in_force", Str(IF c.order_type = "limit" THEN "gtc" ELSE "ioc")>> >>))

GateIO_place_order(c, r, t) ==
    IF is_error(r) THEN failed(r, "message", t) ELSE GateIO_order(r)

GateIO_cancel_order_request(c, t) ==
    Request("DELETE", "/api/v4/spot/orders/" \o c.order_id,
            Dict(<< <<"currency_pair", Str(c.symbol)>> >>), None)

GateIO_cancel_order(c, r, t) ==
    IF is_error(r) THEN failed(r, "message", t) ELSE Return(Bool(TRUE))

-----------------------------------------------------------------------------
(* utils.py *)

\* int(datetime.fromisoformat(iso_date).timestamp() * 1000) for the form
\* YYYY-MM-DDTHH:MM:SS+HH:MM (an aware datetime of whole seconds), read field by
\* field.  The instant must lie within 24 days of 2024-06-10 to be held as an
\* instant of this model.
iso_to_timestamp(iso_date) ==
    LET s == iso_date.s
        IsDigit(i) == \E d \in 0..9 : ToString(d) = SubSeq(s, i, i)
        digit(i)   == CHOOSE d \in 0..9 : ToString(d) = SubSeq(s, i, i)
        num2(i)    == 10 * digit(i) + digit(i + 1)
        wellformed == /\ Len(s) = 25
                      /\ \A i \in {1, 2, 3, 4, 6, 7, 9, 10, 12, 13, 15, 16, 18, 19,
                                   21, 22, 24, 25} : IsDigit(i)
                      /\ SubSeq(s, 5, 5) = "-"
                      /\ SubSeq(s, 8, 8) = "-"
                      /\ SubSeq(s, 14, 14) = ":"
                      /\ SubSeq(s, 17, 17) = ":"
                      /\ SubSeq(s, 20, 20) \in {"+", "-"}
                      /\ SubSeq(s, 23, 23) = ":"
        \* the datetime of the fields read, as seconds since the epoch
        timestamp(year, month, day, hour, minute, second, east, tzhour, tzminute) ==
            LET \* tzinfo: the offset east of UTC, in seconds
                offset == (IF east THEN 1 ELSE -1) * (tzhour * 3600 + tzminute * 60)
                leap   == year % 4 = 0 /\ (year % 100 # 0 \/ year % 400 = 0)
                last   == CASE month = 2 -> IF leap THEN 29 ELSE 28
                            [] month \in {4, 6, 9, 11} -> 30
                            [] OTHER -> 31
                valid  == /\ year >= 1
                          /\ month \in 1..12
                          /\ day \in 1..last
                          /\ hour \in 0..23
                          /\ minute \in 0..59
                          /\ second \in 0..59
                          /\ tzhour \in 0..23
                          /\ tzminute \in 0..59
                \* days from 1970-01-01 to the date in the proleptic Gregorian calendar
                y      == IF month <= 2 THEN year - 1 ELSE year
                era    == y \div 400
                yoe    == y - era * 400
                doy    == (153 * (IF month > 2 THEN month - 3 ELSE month + 9) + 2) \div 5
                              + day - 1
                doe    == yoe * 365 + yoe \div 4 - yoe \div 100 + doy
                days   == era * 146097 + doe - 719468
                \* dt.timestamp(): seconds since the epoch of the instant
                epoch  == days * 86400 + hour * 3600 + minute * 60 + second - offset
            IN  IF ~valid THEN Raise("ValueError")
                ELSE Ok(Num((epoch - 1718000000) * 1000))
    IN  IF iso_date.t # "str" THEN Raise("TypeError")
        ELSE IF ~wellformed THEN Raise("ValueError")
        ELSE CHOOSE dt \in
                 {timestamp(100 * century + year, month, day, hour, minute, second, east,
                            tzhour, tzminute) :
                      century \in {num2(1)}, year \in {num2(3)}, month \in {num2(6)},
                      day \in {num2(9)}, hour \in {num2(12)}, minute \in {num2(15)},
                      second \in {num2(18)}, east \in {SubSeq(s, 20, 20) = "+"},
                      tzhour \in {num2(21)}, tzminute \in {num2(24)}} : TRUE

\* every zone read as UTC
utcoffset_utc(tz) == 0

\* pytz.timezone(tz).utcoffset, in seconds east of UTC, at the instants of this
\* model (May to July 2024, when New York keeps daylight time)
utcoffset(tz) ==
    CASE tz = "Asia/Seoul"       -> 32400
      [] tz = "UTC"              -> 0
      [] tz = "Asia/Kolkata"     -> 19800
      [] tz = "America/New_York" -> -14400

\* datetime.fromtimestamp(timestamp / 1000, tz=pytz.timezone(tz)).isoformat()
timestamp_to_iso(timestamp, tz) ==
    LET offset    == utcoffset(tz)
        seconds   == 1718000000 + (timestamp.n \div 1000) + offset
        micro     == (timestamp.n % 1000) * 1000
        \* the civil date of the day number
        z         == seconds \div 86400 + 719468
        era       == z \div 146097
        doe       == z - era * 146097
        yoe       == (doe - doe \div 1460 + doe \div 36524 - doe \div 146096) \div 365
        doy       == doe - (365 * yoe + yoe \div 4 - yoe \div 100)
        mp        == (5 * doy + 2) \div 153
        day       == doy - (153 * mp + 2) \div 5 + 1
        month     == IF mp < 10 THEN mp + 3 ELSE mp - 9
        year      == yoe + era * 400 + (IF month <= 2 THEN 1 ELSE 0)
        time      == seconds % 86400
        place     == IF offset < 0 THEN -offset ELSE offset
        pad(n, w) == SubSeq("00000", 1, w - Len(ToString(n))) \o ToString(n)
    IN  IF timestamp.t # "num" THEN Raise("TypeError")
        ELSE IF tz \notin {"Asia/Seoul", "UTC", "Asia/Kolkata", "America/New_York"}
        THEN Raise("UnknownTimeZoneError")
        ELSE Ok(Str(pad(year, 4) \o "-" \o pad(month, 2) \o "-" \o pad(day, 2) \o "T"
                    \o pad(time \div 3600, 2) \o ":" \o pad((time % 3600) \div 60, 2)
                    \o ":" \o pad(time % 60, 2)
                    \o (IF micro = 0 THEN "" ELSE "." \o pad(micro, 6))
                    \o (IF offset < 0 THEN "-" ELSE "+")
                    \o pad(place \div 3600, 2) \o ":" \o pad((place % 3600) \div 60, 2)))

isoOf(r) == IF r.exc # "" THEN r ELSE iso_to_timestamp(r.v)

-----------------------------------------------------------------------------
(* Upbit *)

\* the Order(...) expression shared by get_open_orders, get_closed_orders,
\* get_order and place_order
Upbit_order(order) ==
    LET uuid      == getitem(order, "uuid")
        side      == getitem(order, "side")
        volume    == floatOf(getitem(order, "volume"))
        price     == floatOf(getitem(order, "price"))
        ord_type  == getitem(order, "ord_type")
        state     == getitem(order, "state")
        executed  == floatOf(getitem(order, "executed_volume"))
        remaining == floatOf(getitem(order, "remaining_volume"))
        created   == isoOf(getitem(order, "created_at"))
        e == FirstExc(<<uuid, side, volume, price, ord_type, state, executed,
                        remaining, created>>)
    IN  IF e # "" THEN Raise(e)
        ELSE Ok(Order(uuid.v, side.v, volume.v, price.v, ord_type.v, state.v,
                      executed.v, remaining.v, created.v))

Upbit_orders(r) ==
    LET data == json(r)
        xs   == IF data.exc # "" THEN data ELSE iter(data.v)
    IN  IF xs.exc # "" THEN Error(xs.exc)
        ELSE finish(collect([i \in 1..Len(xs.v) |-> Upbit_order(xs.v[i])]))

Upbit_get_symbols_request(c, t) ==
    Request("GET", "/v1/market/all", None, None)

Upbit_get_symbols(c, r, t) ==
    LET Upbit_symbol(market) ==
        LET id   == getitem(market, "market")
            name == getitem(market, "english_name")
            e    == FirstExc(<<id, name>>)
        IN  IF e # "" THEN Raise(e) ELSE Ok([symbol |-> id.v, name |-> name.v])
    IN
        IF is_error(r) THEN failed(r, "error.message", t)
        ELSE LET data == json(r)
                 xs   == IF data.exc # "" THEN data ELSE iter(data.v)
             IN  IF xs.exc # "" THEN Error(xs.exc)
                 ELSE finish(collect([i \in 1..Len(xs.v) |-> Upbit_symbol(xs.v[i])]))

Upbit_get_tickers_request(c, t) ==
    Request("GET", "/v1/ticker",
            IF c.symbol # "" THEN Dict(<< <<"markets", Str(c.symbol)>> >>) ELSE None, None)

Upbit_get_tickers(c, r, t) ==
    LET Upbit_ticker(ticker) ==
        LET g(k)   == getitem(ticker, k)
            market == g("market")
            tts    == g("trade_timestamp")
            tp     == g("trade_price")
            tv     == g("trade_volume")
            open   == g("opening_price")
            high   == g("high_price")
            low    == g("low_price")
            rate   == g("signed_change_rate")
            pct    == IF rate.exc # "" THEN rate
                      ELSE IF rate.v.t \in {"num", "bool"} THEN Ok(Num(rate.v.n * 100))
                      ELSE IF rate.v.t \in {"str", "list"} THEN Ok(rate.v)
                      ELSE Raise("TypeError")
            change == g("change_price")
            atv    == g("acc_trade_volume")
            atp    == g("acc_trade_price")
            ts     == g("timestamp")
            e == FirstExc(<<market, tts, tp, tv, open, high, low, pct, change, atv, atp, ts>>)
        IN  IF e # "" THEN Raise(e)
            ELSE IF pct.v.t \notin {"num", "bool"} THEN Raise("TypeError")
            ELSE Ok([symbol |-> market.v, trade_timestamp |-> tts.v, trade_price |-> tp.v,
                     trade_volume |-> tv.v, opening_price |-> open.v, high_price |-> high.v,
                     low_price |-> low.v, change_percentage |-> pct.v,
                     change_price |-> change.v, acc_trade_volume |-> atv.v,
                     acc_trade_price |-> atp.v, timestamp |-> ts.v])
    IN
        IF is_error(r) THEN failed(r, "error.message", t)
        ELSE LET data == json(r)
                 xs   == IF data.exc # "" THEN data ELSE iter(data.v)
             IN  IF xs.exc # "" THEN Error(xs.exc)
                 ELSE finish(collect([i \in 1..Len(xs.v) |-> Upbit_ticker(xs.v[i])]))

Upbit_get_balances_request(c, t) ==
    Request("GET", "/v1/accounts", None, None)

Upbit_get_balances(c, r, t) ==
    LET Upbit_balance(balance) ==
        LET currency == getitem(balance, "currency")
            bal      == floatOf(getitem(balance, "balance"))
            locked   == floatOf(getitem(balance, "locked"))
            avg      == floatOf(getitem(balance, "avg_buy_price"))
            modified == getitem(balance, "avg_buy_price_modified")
            unit     == getitem(balance, "unit_currency")
            e == FirstExc(<<currency, bal, locked, avg, modified, unit>>)
        IN  IF e # "" THEN Raise(e)
            ELSE Ok([currency |-> currency.v, balance |-> bal.v, locked |-> locked.v,
                     avg_buy_price |-> avg.v, avg_buy_price_modified |-> modified.v,
                     unit_currency |-> unit.v])
    IN
        IF is_error(r) THEN failed(r, "error.message", t)
        ELSE LET data == json(r)
                 xs   == IF data.exc # "" THEN data ELSE iter(data.v)
             IN  IF xs.exc # "" THEN Error(xs.exc)
                 ELSE finish(collect([i \in 1..Len(xs.v) |-> Upbit_balance(xs.v[i])]))

Upbit_get_open_orders_request(c, t) ==
    Request("GET", "/v1/orders/open",
            Dict(<< <<"market", Str(c.symbol)>>, <<"page", Num(c.page)>>,
                    <<"limit", Num(c.limit)>>, <<"order_by", Str(c.order_by)>>,
                    <<"states[]", List(<<Str("wait"), Str("watch")>>)>> >>), None)

Upbit_get_open_orders(c, r, t) ==
    IF is_error(r) THEN failed(r, "error.message", t) ELSE Upbit_orders(r)

Upbit_get_closed_orders_request(c, t) ==
    Request("GET", "/v1/orders/closed",
            Dict(<< <<"market", Str(c.symbol)>>, <<"limit", Num(c.limit)>>,
                    <<"order_by", Str(c.order_by)>> >>
                 \o (IF c.status # ""
                     THEN << <<"state", Str(IF c.status = "canceled" THEN "cancel"
                                            ELSE c.status)>> >>
                     ELSE << <<"states[]", List(<<Str("done"), Str("cancel")>>)>> >>)
                 \o (IF c.start_date # 0 THEN << <<"start_date", Num(c.start_date)>> >>
                     ELSE <<>>)
                 \o (IF c.end_date # 0 THEN << <<"end_date", Num(c.end_date)>> >>
                     ELSE <<>>)),
            None)

Upbit_get_closed_orders(c, r, t) ==
    IF is_error(r) THEN failed(r, "error.message", t) ELSE Upbit_orders(r)

Upbit_get_order_request(c, t) ==
    Request("GET", "/v1/order", Dict(<< <<"uuid", Str(c.order_id)>> >>), None)

Upbit_get_order(c, r, t) ==
    IF is_error(r) THEN failed(r, "error.message", t)
    ELSE LET orders == json(r)
             order  == IF orders.exc # "" THEN orders ELSE first(orders.v)
         IN  IF order.exc # "" THEN Error(order.exc)
             ELSE finish(Upbit_order(order.v))

Upbit_get_order_book_request(c, t) ==
    Request("GET", "/v1/orderbook", Dict(<< <<"markets", Str(c.symbol)>> >>), None)

Upbit_get_order_book(c, r, t) ==
    LET Upbit_unit(unit) ==
        LET ap == floatOf(getitem(unit, "ask_price"))
            aq == floatOf(getitem(unit, "ask_size"))
            bp == floatOf(getitem(unit, "bid_price"))
            bq == floatOf(getitem(unit, "bid_size"))
            e  == FirstExc(<<ap, aq, bp, bq>>)
        IN  IF e # "" THEN Raise(e) ELSE Ok(OrderBookItem(ap.v, aq.v, bp.v, bq.v))
    IN
        IF is_error(r) THEN failed(r, "error.message", t)
        ELSE LET data   == json(r)
                 book   == IF data.exc # "" THEN data ELSE first(data.v)
                 market == IF book.exc # "" THEN book ELSE getitem(book.v, "market")
                 ts     == IF market.exc # "" THEN market ELSE getitem(book.v, "timestamp")
                 units  == IF ts.exc # "" THEN ts ELSE getitem(book.v, "orderbook_units")
                 xs     == IF units.exc # "" THEN units ELSE iter(units.v)
             IN  IF xs.exc # "" THEN Error(xs.exc)
                 ELSE LET items == collect([i \in 1..Len(xs.v) |-> Upbit_unit(xs.v[i])])
                      IN  IF items.exc # "" THEN Error(items.exc)
                          ELSE Return([symbol |-> market.v, timestamp |-> ts.v,
                                       items |-> items.v])

Upbit_place_order_request(c, t) ==
    \* order_type = "price" if order_type == "market" and side == "bid" else order_type
    LET order_type ==
            IF c.order_type = "market" /\ c.side = "bid" THEN "price" ELSE c.order_type
    IN  Request("POST", "/v1/orders", None,
                Dict(<< <<"market", Str(c.symbol)>>,
                        <<"side", Str(c.side)>>,
                        <<"volume", IF order_type = "price" THEN None ELSE Num(c.amount)>>,
                        <<"price", IF order_type = "market" /\ c.side = "ask"
                                   THEN None ELSE Num(c.price)>>,
                        <<"ord_type", Str(order_type)>> >>))

Upbit_place_order(c, r, t) ==
    IF is_error(r) THEN failed(r, "error.message", t)
    ELSE LET order == json(r)
         IN  IF order.exc # "" THEN Error(order.exc)
             ELSE finish(Upbit_order(order.v))

Upbit_cancel_order_request(c, t) ==
    Request("DELETE", "/v1/order", Dict(<< <<"uuid", Str(c.order_id)>> >>), None)

Upbit_cancel_order(c, r, t) ==
    IF is_error(r) THEN failed(r, "error.message", t) ELSE Return(Bool(TRUE))

-----------------------------------------------------------------------------
(* Request signing: httpx's request preparation and the three strategies *)

\* s.endswith(suffix)
endswith(s, suffix) ==
    /\ Len(s) >= Len(suffix)
    /\ SubSeq(s, Len(s) - Len(suffix) + 1, Len(s)) = suffix

\* The keys and values of the requests that hold a character a query string
\* percent-encodes, with their encodings; every other key or value is its own
\* encoding.
Escapes == << <<"states[]", "states%5B%5D">>, <<"KRW-BTC,KRW-ETH", "KRW-BTC%2CKRW-ETH">> >>

\* urllib.parse.quote of one key or value
quote(s) ==
    IF \E i \in 1..Len(Escapes) : Escapes[i][1] = s
    THEN Escapes[CHOOSE i \in 1..Len(Escapes) : Escapes[i][1] = s][2]
    ELSE s

\* urllib.parse.unquote of one encoded key or value
unquote(s) ==
    IF \E i \in 1..Len(Escapes) : Escapes[i][2] = s
    THEN Escapes[CHOOSE i \in 1..Len(Escapes) : Escapes[i][2] = s][1]
    ELSE s

\* The text of a scalar in a query string; none is the text of None ("" in
\* httpx's QueryParams, "None" in urllib's urlencode).
primitive_value_to_str(v, none) ==
    CASE v.t = "str"      -> v.s
      [] v.t = "num"      -> ToString(v.n)
      [] v.t = "bool"     -> IF v.n # 0 THEN "true" ELSE "false"
      [] v.t = "NoneType" -> none
      [] OTHER            -> "<repr>"

\* the (key, value) pairs of a mapping, a list value giving one pair per element
RECURSIVE query_pairs(_)
query_pairs(o) ==
    IF o = <<>> THEN <<>>
    ELSE LET k == Head(o)[1]
             v == Head(o)[2]
         IN  (IF v.t = "list" THEN [i \in 1..Len(v.a) |-> <<k, v.a[i]>>]
              ELSE << <<k, v>> >>) \o query_pairs(Tail(o))

\* urlencode(params, doseq=True), and the query httpx builds from params=: the
\* encoded keys and values in order, which the text joins as k=v&k=v
urlencode(params, none) ==
    IF params.t # "dict" THEN <<>>
    ELSE LET ps == query_pairs(params.o)
         IN  [i \in 1..Len(ps) |->
                 <<quote(ps[i][1]), quote(primitive_value_to_str(ps[i][2], none))>>]

RECURSIVE query_text(_)
query_text(query) ==
    IF query = <<>> THEN ""
    ELSE Head(query)[1] \o "=" \o Head(query)[2]
         \o (IF Tail(query) = <<>> THEN "" ELSE "&" \o query_text(Tail(query)))

\* unquote(query.decode()): unquote decodes each key and value, the separators
\* = and & are never encoded
unquote_query(query) ==
    query_text([i \in 1..Len(query) |-> <<unquote(query[i][1]), unquote(query[i][2])>>])

\* json.dumps of a flat mapping, the content httpx sends for json=
json_dumps(body) ==
    LET RECURSIVE json_members(_)
        json_members(o) ==
            IF o = <<>> THEN ""
            ELSE LET v == Head(o)[2]
                 IN  "\"" \o Head(o)[1] \o "\":"
                     \o (CASE v.t = "str"      -> "\"" \o v.s \o "\""
                           [] v.t = "num"      -> ToString(v.n)
                           [] v.t = "bool"     -> IF v.n # 0 THEN "true" ELSE "false"
                           [] v.t = "NoneType" -> "null"
                           [] OTHER            -> "<repr>")
                     \o (IF Tail(o) = <<>> THEN "" ELSE "," \o json_members(Tail(o)))
    IN  IF body.t # "dict" THEN "" ELSE "{" \o json_members(body.o) \o "}"

\* httpx.Request as client.request builds it from the arguments of send: the
\* params merged into the URL's query and the json body serialized
httpx_Request(args) ==
    [method |-> args.method, url |-> args.url, params |-> args.params,
     json |-> args.json, query |-> urlencode(args.params, ""),
     content |-> json_dumps(args.json), headers |-> <<>>]

\* request.headers[name] = value
set_header(request, name, value) ==
    [request EXCEPT !.headers =
        SelectSeq(request.headers, LAMBDA h : h[1] # name) \o << <<name, value>> >>]

\* request.url.copy_merge_params({name: value})
copy_merge_params(request, name, value) ==
    [request EXCEPT !.query =
        SelectSeq(request.query, LAMBDA q : q[1] # quote(name))
            \o << <<quote(name), quote(value)>> >>]

\* Digests are terms over their inputs: two digests are equal exactly when the
\* algorithm, the key and the message are.
hexdigest(alg, message) == alg \o "(" \o message \o ")"
hmac_hexdigest(key, message, alg) == "hmac-" \o alg \o "(" \o key \o ")(" \o message \o ")"

\* os.getenv(name): the credential the environment holds under a name
getenv(name) == "<" \o name \o ">"

\* BinanceAuth signing every request
BinanceAuth_is_signature_required_always(path) == TRUE

BinanceAuth_is_signature_required(path) ==
    LET endpoints == {"/api/v3/order", "/api/v3/openOrders", "/api/v3/allOrders",
                      "/api/v3/account"}
    IN  \E endpoint \in endpoints : endswith(path, endpoint)

\* BinanceAuth signing the query alone
BinanceAuth_generate_signature_query(query_string, payload_string) ==
    hmac_hexdigest(getenv("BINANCE_SECRET_KEY"), query_string, "sha256")

BinanceAuth_generate_signature(query_string, payload_string) ==
    LET m1      == IF query_string # "" THEN query_string ELSE ""
        message == IF payload_string # "" THEN m1 \o payload_string ELSE m1
    IN  hmac_hexdigest(getenv("BINANCE_SECRET_KEY"), message, "sha256")

BinanceAuth_auth_flow(request) ==
    LET signed ==
            IF BinanceAuth_is_signature_required(request.url)
            THEN copy_merge_params(request, "signature",
                     BinanceAuth_generate_signature(unquote_query(request.query),
                                                    unquote(request.content)))
            ELSE request
    IN  set_header(signed, "X-MBX-APIKEY", getenv("BINANCE_ACCESS_KEY"))

\* str(x) of a float of seconds, the float being held as its whole milliseconds
\* (time.time() is the clock t): the shortest decimal that reads back
repr_float(ms) ==
    LET f == ms % 1000
    IN  ToString(ms \div 1000) \o "."
        \o (IF f % 100 = 0 THEN ToString(f \div 100)
            ELSE IF f % 10 = 0
            THEN (IF f < 100 THEN "0" ELSE "") \o ToString(f \div 10)
            ELSE (IF f < 10 THEN "00" ELSE IF f < 100 THEN "0" ELSE "") \o ToString(f))

GateIOAuth_auth_flow(request, t) ==
    LET GateIOAuth_generate_signature(endpoint, method, timestamp, query_string, payload_string) ==
        LET hashed_payload == hexdigest("sha512", payload_string)
            message == method \o "\n" \o endpoint \o "\n" \o query_string \o "\n"
                       \o hashed_payload \o "\n" \o repr_float(timestamp)
        IN  hmac_hexdigest(getenv("GATEIO_SECRET_KEY"), message, "sha512")
    IN
        LET body         == request.content
            query_string == unquote_query(request.query)
            timestamp    == t
            signature    == GateIOAuth_generate_signature(request.url, request.method,
                                timestamp, query_string, body)
        IN  set_header(set_header(set_header(request, "KEY", getenv("GATEIO_ACCESS_KEY")),
                                  "SIGN", signature),
                       "Timestamp", repr_float(timestamp))

\* uuid4 returning one value at every draw
uuid4_fixed(drawn) == "uuid-1"

\* str(uuid.uuid4()): a value no earlier draw returned; drawn counts the draws
uuid4(drawn) == "uuid-" \o ToString(drawn + 1)

UpbitRequester_generate_auth(params, body, nonce) ==
    \* jwt.encode(payload, key, algorithm="HS256")
    LET jwt_encode(payload, key) ==
        json_dumps(payload) \o "." \o hmac_hexdigest(key, json_dumps(payload), "sha256")
    IN
        LET payload == << <<"access_key", Str(getenv("UPBIT_ACCESS_KEY"))>>, <<"nonce", Str(nonce)>> >>
            source  == IF truthy(params) THEN params ELSE body
            hashed  == IF truthy(params) \/ truthy(body)
                       THEN << <<"query_hash",
                                 Str(hexdigest("sha512", unquote_query(urlencode(source, "None"))))>>,
                               <<"query_hash_alg", Str("SHA512")>> >>
                       ELSE <<>>
        IN  jwt_encode(Dict(payload \o hashed), getenv("UPBIT_SECRET_KEY"))

-----------------------------------------------------------------------------
(* HTTPRequester *)

\* client.request(..., auth=authorization): the request with its auth flow applied
client_request(authorization, args, t) ==
    LET BearerAuth_auth_flow(token, request) ==
            set_header(request, "Authorization", "Bearer " \o token)
    IN
    CASE authorization.cls = "BinanceAuth" -> BinanceAuth_auth_flow(httpx_Request(args))
      [] authorization.cls = "GateIOAuth"  -> GateIOAuth_auth_flow(httpx_Request(args), t)
      [] authorization.cls = "BearerAuth"  ->
            BearerAuth_auth_flow(authorization.token, httpx_Request(args))
      [] OTHER -> httpx_Request(args)

\* requester.send keeping the bearer token an earlier call left on the requester
requester_send_cached(requester, args, t, drawn) ==
    LET authorization ==
            IF requester.cls = "UpbitRequester" /\ requester.authorization.cls # "BearerAuth"
            THEN [cls |-> "BearerAuth",
                  token |-> UpbitRequester_generate_auth(args.params, args.json,
                                                         uuid4(drawn))]
            ELSE requester.authorization
    IN  [requester |-> [requester EXCEPT !.authorization = authorization],
         request |-> client_request(authorization, args, t),
         nonces |-> IF requester.cls = "UpbitRequester" THEN <<uuid4(drawn)>> ELSE <<>>]

\* requester.send up to the network wait: UpbitRequester first replaces its
\* authorization by a new bearer token.  drawn counts the uuid4 draws so far.
\* Gives the requester as the call leaves it and the request put on the wire.
requester_send(requester, args, t, drawn) ==
    LET authorization ==
            IF requester.cls = "UpbitRequester"
            THEN [cls |-> "BearerAuth",
                  token |-> UpbitRequester_generate_auth(args.params, args.json,
                                                         uuid4(drawn))]
            ELSE requester.authorization
    IN  [requester |-> [requester EXCEPT !.authorization = authorization],
         request |-> client_request(authorization, args, t),
         nonces |-> IF requester.cls = "UpbitRequester" THEN <<uuid4(drawn)>> ELSE <<>>]

\* httpx.AsyncClient(): a session as constructed and entered, nothing sent on it
AsyncClient == [requests |-> 0, is_closed |-> FALSE]

\* leaving `async with` that closes the session only after a normal return
aexit_on_return(client, exc_type) ==
    [client EXCEPT !.is_closed = (exc_type = "")]

\* leaving `async with httpx.AsyncClient() as client`: __aexit__ closes the session,
\* whether the block returned or an exception (exc_type) passes through it
aexit(client, exc_type) ==
    [client EXCEPT !.is_closed = TRUE]

NoResponse == [status_code |-> 0, content |-> [raw |-> "absent", j |-> None]]

\* HTTPRequester.send: what `await client.request(...)` leads to.  n is what the
\* network did with the request: it delivered a response, or the transport failed
\* and httpx raised a RequestError.  The handler of RequestError reads e.response,
\* an attribute httpx.RequestError does not have (only e.request), so the handler
\* itself raises AttributeError and no synthetic response is built.
\* sent: the requests the call put on the wire.
\* send with one retry after a failed response
send_retrying(request, n) ==
    IF n.kind = "response"
    THEN [exc |-> "", v |-> n.response,
          sent |-> IF n.response.status_code >= 400 THEN <<request, request>>
                   ELSE <<request>>]
    ELSE [exc |-> "AttributeError", v |-> NoResponse, sent |-> <<request>>]

send(request, n) ==
    IF n.kind = "response"
    THEN [exc |-> "", v |-> n.response, sent |-> <<request>>]
    ELSE [exc |-> "AttributeError", v |-> NoResponse, sent |-> <<request>>]

-----------------------------------------------------------------------------
(* factory.py and the dispatcher: get_factory(name).create_exchange().<op>(...) *)

factories ==
    [upbit |-> "UpbitFactory", gateio |-> "GateIOFactory", binance |-> "BinanceFactory"]

\* get_factory falling back to Upbit for an unknown name
get_factory_default(exchange_name) ==
    IF exchange_name \in DOMAIN factories THEN Ok(factories[exchange_name])
    ELSE Ok("UpbitFactory")

get_factory(exchange_name) ==
    IF exchange_name \in DOMAIN factories THEN Ok(factories[exchange_name])
    ELSE Raise("KeyError")

NoAuth == [cls |-> "None", token |-> ""]

\* factory.create_exchange(): the adapter around what create_requester() returns
create_exchange(factory) ==
    LET create_requester ==
            CASE factory = "UpbitFactory"   ->
                    [cls |-> "UpbitRequester", authorization |-> NoAuth]
              [] factory = "GateIOFactory"  ->
                    [cls |-> "HTTPRequester",
                     authorization |-> [cls |-> "GateIOAuth", token |-> ""]]
              [] factory = "BinanceFactory" ->
                    [cls |-> "HTTPRequester",
                     authorization |-> [cls |-> "BinanceAuth", token |-> ""]]
    IN  [cls |-> CASE factory = "UpbitFactory"   -> "Upbit"
                   [] factory = "GateIOFactory"  -> "GateIO"
                   [] factory = "BinanceFactory" -> "Binance",
         requester |-> create_requester]

NoAdapter == [cls |-> "", requester |-> [cls |-> "", authorization |-> NoAuth]]

\* envelope returning every exception as a result
envelope_catching(o, t) ==
    IF o.kind = "return"
    THEN [kind |-> "return", cls |-> "dict", code |-> "200", message |-> Str("OK"),
          timestamp |-> t, success |-> TRUE, data |-> o.data]
    ELSE [o EXCEPT !.kind = "return"]

\* envelope: the payload wrapped, a fault returned instead of raised, any other
\* exception raised again
envelope(o, t) ==
    IF o.kind = "return"
    THEN [kind |-> "return", cls |-> "dict", code |-> "200", message |-> Str("OK"),
          timestamp |-> t, success |-> TRUE, data |-> o.data]
    ELSE IF o.cls \in Faults THEN [o EXCEPT !.kind = "return"]
    ELSE o

\* the request the operation hands to its requester
build(cls, c, t) ==
    CASE cls = "Binance" ->
           (CASE c.op = "get_symbols"       -> Binance_get_symbols_request(c, t)
              [] c.op = "get_tickers"       -> Binance_get_tickers_request(c, t)
              [] c.op = "get_balances"      -> Binance_get_balances_request(c, t)
              [] c.op = "get_open_orders"   -> Binance_get_open_orders_request(c, t)
              [] c.op = "get_closed_orders" -> Binance_get_closed_orders_request(c, t)
              [] c.op = "get_order"         -> Binance_get_order_request(c, t)
              [] c.op = "get_order_book"    -> Binance_get_order_book_request(c, t)
              [] c.op = "place_order"       -> Binance_place_order_request(c, t)
              [] c.op = "cancel_order"      -> Binance_cancel_order_request(c, t))
      [] cls = "GateIO" ->
           (CASE c.op = "get_symbols"       -> GateIO_get_symbols_request(c, t)
              [] c.op = "get_tickers"       -> GateIO_get_tickers_request(c, t)
              [] c.op = "get_balances"      -> GateIO_get_balances_request(c, t)
              [] c.op = "get_open_orders"   -> GateIO_get_open_orders_request(c, t)
              [] c.op = "get_closed_orders" -> GateIO_get_closed_orders_request(c, t)
              [] c.op = "get_order"         -> GateIO_get_order_request(c, t)
              [] c.op = "get_order_book"    -> GateIO_get_order_book_request(c, t)
              [] c.op = "place_order"       -> GateIO_place_order_request(c, t)
              [] c.op = "cancel_order"      -> GateIO_cancel_order_request(c, t))
      [] cls = "Upbit" ->
           (CASE c.op = "get_symbols"       -> Upbit_get_symbols_request(c, t)
              [] c.op = "get_tickers"       -> Upbit_get_tickers_request(c, t)
              [] c.op = "get_balances"      -> Upbit_get_balances_request(c, t)
              [] c.op = "get_open_orders"   -> Upbit_get_open_orders_request(c, t)
              [] c.op = "get_closed_orders" -> Upbit_get_closed_orders_request(c, t)
              [] c.op = "get_order"         -> Upbit_get_order_request(c, t)
              [] c.op = "get_order_book"    -> Upbit_get_order_book_request(c, t)
              [] c.op = "place_order"       -> Upbit_place_order_request(c, t)
              [] c.op = "cancel_order"      -> Upbit_cancel_order_request(c, t))

\* the rest of the operation once its requester has returned response r
resume(cls, c, r, t) ==
    CASE cls = "Binance" ->
           (CASE c.op = "get_symbols"       -> Binance_get_symbols(c, r, t)
              [] c.op = "get_tickers"       -> Binance_get_tickers(c, r, t)
              [] c.op = "get_balances"      -> Binance_get_balances(c, r, t)
              [] c.op = "get_open_orders"   -> Binance_get_open_orders(c, r, t)
              [] c.op = "get_closed_orders" -> Binance_get_closed_orders(c, r, t)
              [] c.op = "get_order"         -> Binance_get_order(c, r, t)
              [] c.op = "get_order_book"    -> Binance_get_order_book(c, r, t)
              [] c.op = "place_order"       -> Binance_place_order(c, r, t)
              [] c.op = "cancel_order"      -> Binance_cancel_order(c, r, t))
      [] cls = "GateIO" ->
           (CASE c.op = "get_symbols"       -> GateIO_get_symbols(c, r, t)
              [] c.op = "get_tickers"       -> GateIO_get_tickers(c, r, t)
              [] c.op = "get_balances"      -> GateIO_get_balances(c, r, t)
              [] c.op = "get_open_orders"   -> GateIO_get_open_orders(c, r, t)
              [] c.op = "get_closed_orders" -> GateIO_get_closed_orders(c, r, t)
              [] c.op = "get_order"         -> GateIO_get_order(c, r, t)
              [] c.op = "get_order_book"    -> GateIO_get_order_book(c, r, t)
              [] c.op = "place_order"       -> GateIO_place_order(c, r, t)
              [] c.op = "cancel_order"      -> GateIO_cancel_order(c, r, t))
      [] cls = "Upbit" ->
           (CASE c.op = "get_symbols"       -> Upbit_get_symbols(c, r, t)
              [] c.op = "get_tickers"       -> Upbit_get_tickers(c, r, t)
              [] c.op = "get_balances"      -> Upbit_get_balances(c, r, t)
              [] c.op = "get_open_orders"   -> Upbit_get_open_orders(c, r, t)
              [] c.op = "get_closed_orders" -> Upbit_get_closed_orders(c, r, t)
              [] c.op = "get_order"         -> Upbit_get_order(c, r, t)
              [] c.op = "get_order_book"    -> Upbit_get_order_book(c, r, t)
              [] c.op = "place_order"       -> Upbit_place_order(c, r, t)
              [] c.op = "cancel_order"      -> Upbit_cancel_order(c, r, t))

-----------------------------------------------------------------------------
(* Inputs: the invocations the dispatcher can make and the responses an    *)
(* exchange can send.                                                      *)

SeqsUpTo(S, n) == UNION {[1..k -> S] : k \in 0..n}

Call(exchange, op, symbol, side, order_type, status, page, dated) ==
    [exchange |-> exchange, op |-> op, symbol |-> symbol, side |-> side,
     order_type |-> order_type, status |-> status, page |-> page, limit |-> 10,
     order_by |-> "desc",
     start_date |-> IF dated THEN 241980000 ELSE 0,
     end_date |-> IF dated THEN 241990000 ELSE 0,
     amount |-> 1, price |-> 2, order_id |-> "7"]

NoCall == Call("", "", "", "", "", "", 0, FALSE)

\* The dispatcher passes exchange_name and side on unvalidated (both str), so a
\* name that is no key of factories reaches get_factory and a side outside
\* {bid, ask} reaches place_order.
Calls ==
    LET Exchanges == {"binance", "gateio", "upbit"}
    IN
        UNION {
               {Call(exchange, op, "BTC", "", "", "", 1, FALSE) :
                    op \in {"get_symbols", "get_balances", "get_open_orders", "get_order",
                            "get_order_book", "cancel_order"}}
          \cup {Call(exchange, "get_tickers", symbol, "", "", "", 1, FALSE) :
                    symbol \in {"", "BTC"}}
          \cup {Call(exchange, "get_closed_orders", "BTC", "", "", status, page, dated) :
                    status \in {"", "done", "cancel", "canceled"}, page \in {1, 2},
                    dated \in BOOLEAN}
          \cup {Call(exchange, "place_order", "BTC", side, type, "", 1, FALSE) :
                    side \in {"bid", "ask", "buy"}, type \in {"limit", "market"}}
            : exchange \in Exchanges}
        \cup {Call("kraken", op, "BTC", "", "", "", 1, FALSE) :
                  op \in {"get_symbols", "get_balances", "get_order", "cancel_order"}}
        \cup {Call("Binance", "get_tickers", "", "", "", "", 1, FALSE),
              Call("", "place_order", "BTC", "bid", "limit", "", 1, FALSE)}

Binance_wire_order(status, side, timekey) ==
    Dict(<< <<"symbol", Str("BTC")>>, <<"orderId", Num(7)>>, <<"price", Str("2")>>,
            <<"origQty", Str("3")>>, <<"executedQty", Str("1")>>,
            <<"status", Str(status)>>, <<"type", Str("LIMIT")>>,
            <<"side", Str(side)>>, <<timekey, Num(ClockStart)>> >>)

GateIO_wire_order(status, side) ==
    Dict(<< <<"id", Str("7")>>, <<"create_time_ms", Num(ClockStart)>>,
            <<"status", Str(status)>>, <<"currency_pair", Str("BTC")>>,
            <<"type", Str("limit")>>, <<"side", Str(side)>>, <<"amount", Str("3")>>,
            <<"price", Str("2")>>, <<"left", Str("2")>>,
            <<"filled_amount", Str("1")>> >>)

Upbit_wire_order(state, side) ==
    Dict(<< <<"uuid", Str("7")>>, <<"side", Str(side)>>, <<"ord_type", Str("limit")>>,
            <<"price", Str("2")>>, <<"state", Str(state)>>, <<"market", Str("BTC")>>,
            <<"created_at", Str("2024-06-13T10:26:21+09:00")>>, <<"volume", Str("3")>>,
            <<"remaining_volume", Str("2")>>, <<"executed_volume", Str("1")>> >>)

\* Every order an exchange can send for one order: Binance's and GateIO's
\* documented statuses and sides and one undocumented value of each; Upbit's
\* states and sides as its API documents them.
WireOrders(exchange, timekey) ==
    CASE exchange = "binance" ->
            {Binance_wire_order(s, d, timekey) :
                s \in {"NEW", "PENDING_NEW", "PARTIALLY_FILLED", "FILLED", "CANCELED",
                       "REJECTED", "EXPIRED", "EXPIRED_IN_MATCH", "PENDING_CANCEL"},
                d \in {"BUY", "SELL", "buy"}}
      [] exchange = "gateio" ->
            {GateIO_wire_order(s, d) :
                s \in {"open", "closed", "cancelled", "finished"},
                d \in {"buy", "sell", "BUY"}}
      [] exchange = "upbit" ->
            {Upbit_wire_order(s, d) :
                s \in {"wait", "watch", "done", "cancel"}, d \in {"bid", "ask"}}

\* depth documents: ladders of price levels [price, quantity], up to MaxDepth a side
OrderBookDocs(exchange) ==
    LET Levels  == {List(<<Str("1"), Str("2")>>), List(<<Str("2"), Str("3")>>)}
        Ladders == {List(l) : l \in SeqsUpTo(Levels, MaxDepth)}
        Units   == {Dict(<< <<"ask_price", Num(2)>>, <<"bid_price", Num(1)>>,
                            <<"ask_size", Num(3)>>, <<"bid_size", Num(2)>> >>),
                    Dict(<< <<"ask_price", Num(3)>>, <<"bid_price", Num(0)>>,
                            <<"ask_size", Num(1)>>, <<"bid_size", Num(1)>> >>)}
    IN  CASE exchange = "binance" ->
                {Dict(<< <<"lastUpdateId", Num(1)>>, <<"bids", b>>, <<"asks", a>> >>) :
                    a \in Ladders, b \in Ladders}
          [] exchange = "gateio" ->
                {Dict(<< <<"current", Num(ClockStart)>>, <<"asks", a>>, <<"bids", b>> >>) :
                    a \in Ladders, b \in Ladders}
          [] exchange = "upbit" ->
                {List(<<Dict(<< <<"market", Str("BTC")>>, <<"timestamp", Num(ClockStart)>>,
                                <<"orderbook_units", List(u)>> >>)>>) :
                    u \in SeqsUpTo(Units, MaxDepth)}

SymbolDocs(exchange) ==
    CASE exchange = "binance" ->
            {Dict(<< <<"timezone", Str("UTC")>>, <<"symbols", List(l)>> >>) :
                l \in SeqsUpTo(
                    {Dict(<< <<"symbol", Str("BTCUSDT")>>, <<"status", Str("TRADING")>>,
                             <<"baseAsset", Str("BTC")>> >>),
                     Dict(<< <<"symbol", Str("ETHUSDT")>>, <<"status", Str("BREAK")>>,
                             <<"baseAsset", Str("ETH")>> >>)}, MaxOrders)}
      [] exchange = "gateio" ->
            {List(l) :
                l \in SeqsUpTo(
                    {Dict(<< <<"id", Str("BTC_USDT")>>, <<"base_name", Str("Bitcoin")>>,
                             <<"trade_status", Str("tradable")>> >>),
                     Dict(<< <<"id", Str("ETH_USDT")>>, <<"base_name", Str("Ethereum")>>,
                             <<"trade_status", Str("untradable")>> >>)}, MaxOrders)}
      [] exchange = "upbit" ->
            {List(l) :
                l \in SeqsUpTo(
                    {Dict(<< <<"market", Str("KRW-BTC")>>,
                             <<"english_name", Str("Bitcoin")>> >>),
                     Dict(<< <<"market", Str("KRW-ETH")>>,
                             <<"english_name", Str("Ethereum")>> >>)}, MaxOrders)}

TickerDocs(exchange) ==
    LET Binance_wire_ticker ==
            Dict(<< <<"symbol", Str("BTCUSDT")>>, <<"priceChange", Str("1")>>,
                    <<"priceChangePercent", Str("2")>>, <<"lastPrice", Str("3")>>,
                    <<"openPrice", Str("2")>>, <<"highPrice", Str("3")>>,
                    <<"lowPrice", Str("1")>>, <<"volume", Str("2")>>,
                    <<"quoteVolume", Str("3")>> >>)
        GateIO_wire_ticker(pair) ==
            Dict(<< <<"currency_pair", Str(pair)>>, <<"last", Str("3")>>,
                    <<"change_percentage", Str("2")>>, <<"base_volume", Str("2")>>,
                    <<"quote_volume", Str("3")>>, <<"high_24h", Str("3")>>,
                    <<"low_24h", Str("1")>> >>)
        Upbit_wire_ticker(market) ==
            Dict(<< <<"market", Str(market)>>, <<"trade_timestamp", Num(ClockStart)>>,
                    <<"trade_price", Num(3)>>, <<"trade_volume", Num(2)>>,
                    <<"opening_price", Num(2)>>, <<"high_price", Num(3)>>,
                    <<"low_price", Num(1)>>, <<"signed_change_rate", Num(2)>>,
                    <<"change_price", Num(1)>>, <<"acc_trade_volume", Num(2)>>,
                    <<"acc_trade_price", Num(3)>>, <<"timestamp", Num(ClockStart)>> >>)
    IN  CASE exchange = "binance" ->
                {Binance_wire_ticker, List(<<Binance_wire_ticker, Binance_wire_ticker>>)}
          [] exchange = "gateio" ->
                {List(l) : l \in SeqsUpTo({GateIO_wire_ticker("BTC_USDT"),
                                           GateIO_wire_ticker("ETH_USDT")}, MaxOrders)}
          [] exchange = "upbit" ->
                {List(l) : l \in SeqsUpTo({Upbit_wire_ticker("KRW-BTC"),
                                           Upbit_wire_ticker("KRW-ETH")}, MaxOrders)}

\* the documents an exchange sends in answer to a call
SuccessDocs(c) ==
    LET BalanceDocs(exchange) ==
        CASE exchange = "binance" ->
                {Dict(<< <<"balances", List(l)>> >>) :
                    l \in SeqsUpTo({Dict(<< <<"asset", Str("BTC")>>, <<"free", Str("2")>>,
                                            <<"locked", Str("1")>> >>)}, MaxOrders)}
          [] exchange = "gateio" ->
                {List(l) :
                    l \in SeqsUpTo({Dict(<< <<"currency", Str("BTC")>>, <<"available", Str("2")>>,
                                            <<"locked", Str("1")>> >>)}, MaxOrders)}
          [] exchange = "upbit" ->
                {List(l) :
                    l \in SeqsUpTo({Dict(<< <<"currency", Str("BTC")>>, <<"balance", Str("2")>>,
                                            <<"locked", Str("1")>>, <<"avg_buy_price", Str("3")>>,
                                            <<"avg_buy_price_modified", Bool(FALSE)>>,
                                            <<"unit_currency", Str("KRW")>> >>)}, MaxOrders)}
    IN
        \* the orders that order lists are built from
        LET ListedOrders(exchange) ==
            CASE exchange = "binance" ->
                    {Binance_wire_order("NEW", "BUY", "time"),
                     Binance_wire_order("PARTIALLY_FILLED", "SELL", "time"),
                     Binance_wire_order("FILLED", "SELL", "time"),
                     Binance_wire_order("CANCELED", "BUY", "time"),
                     Binance_wire_order("EXPIRED", "buy", "time")}
              [] exchange = "gateio" ->
                    {GateIO_wire_order("open", "buy"), GateIO_wire_order("closed", "sell"),
                     GateIO_wire_order("cancelled", "buy"), GateIO_wire_order("finished", "BUY")}
              [] exchange = "upbit" ->
                    {Upbit_wire_order("wait", "bid"), Upbit_wire_order("watch", "ask"),
                     Upbit_wire_order("done", "ask"), Upbit_wire_order("cancel", "bid")}
        IN
            CASE c.op = "get_symbols"  -> SymbolDocs(c.exchange)
              [] c.op = "get_tickers"  -> TickerDocs(c.exchange)
              [] c.op = "get_balances" -> BalanceDocs(c.exchange)
              [] c.op \in {"get_open_orders", "get_closed_orders"} ->
                    {List(l) : l \in SeqsUpTo(ListedOrders(c.exchange), MaxOrders)}
              [] c.op = "get_order" ->
                    IF c.exchange = "upbit"
                    THEN {List(<<o>>) : o \in WireOrders("upbit", "time")}
                    ELSE WireOrders(c.exchange, "time")
              [] c.op = "get_order_book" -> OrderBookDocs(c.exchange)
              [] c.op = "place_order" -> WireOrders(c.exchange, "transactTime")
              [] c.op = "cancel_order" ->
                    IF c.exchange = "binance" THEN WireOrders("binance", "transactTime")
                    ELSE {Dict(<< <<"uuid", Str("7")>> >>)}

\* a response: any status with a body that is absent, not JSON, an error document
\* or a document answering the call
Responses(c) ==
    \* error documents in the three exchanges' shapes, and bodies that are not the
    \* documented shape
    LET ErrorDocs ==
        {Dict(<< <<"code", Num(-1121)>>, <<"msg", Str("Get Balances Failed")>> >>),
         Dict(<< <<"label", Str("INVALID_PARAM")>>,
                 <<"message", Str("Get Balances Failed")>> >>),
         Dict(<< <<"error", Dict(<< <<"name", Str("invalid")>>,
                                    <<"message", Str("Get Balances Failed")>> >>)>> >>),
         Dict(<< <<"msg", Str("")>>, <<"message", Str("")>>,
                 <<"error", Dict(<< <<"message", Str("")>> >>)>> >>),
         Dict(<< <<"msg", None>>, <<"message", Num(5)>>, <<"error", Str("denied")>> >>),
         Dict(<<>>),
         List(<<>>),
         List(<<Str("Get Balances Failed")>>),
         Str("Service Unavailable"),
         None}
    IN
        \* HTTP status codes: informational, success, redirect, the five mapped failures
        \* and two unmapped ones
        LET Statuses == {101, 200, 201, 302, 400, 401, 403, 404, 429, 500, 503}
        IN
            {[status_code |-> s, content |-> b] :
                s \in Statuses,
                b \in {[raw |-> "absent", j |-> None], [raw |-> "garbage", j |-> None]}
                      \cup {[raw |-> "json", j |-> d] : d \in ErrorDocs \cup SuccessDocs(c)}}

-----------------------------------------------------------------------------
(* The state machine *)

NoRequest == httpx_Request(Request("", "", None, None))
NoNet     == [kind |-> "none", response |-> NoResponse]

\* no tool call started: no object on the heap, no uuid drawn
NoTasks ==
    [heap  |-> <<>>,
     drawn |-> 0,
     at    |-> [i \in 1..MaxTasks |->
                  [pc |-> "new", call |-> NoCall, adapter |-> [cls |-> "", requester |-> 0],
                   args |-> Request("", "", None, None), nonce |-> "",
                   request |-> NoRequest, overlap |-> FALSE]]]

\* the process after its modules are loaded: nothing constructed, nothing sent
Loaded ==
    /\ pc = "idle"
    /\ call = NoCall
    /\ adapter = NoAdapter
    /\ req = NoRequest
    /\ net = NoNet
    /\ wire = <<>>
    /\ response = NoResponse
    /\ outcome = NoOutcome
    /\ result = NoOutcome
    /\ now = ClockStart
    /\ invoked = 0
    /\ issued = 0
    /\ repeated = FALSE
    /\ nonces = <<>>
    /\ sessions = <<>>
    /\ tasks = NoTasks

Init ==
    /\ Loaded
    /\ signing = [query_string |-> "", payload_string |-> "", signature |-> ""]
    /\ conversion = [iso_date |-> "", tz |-> "", timestamp |-> Ok(None),
                     iso |-> Ok(None), created_at |-> Ok(None), done |-> FALSE]

\* The dispatcher tool is called.  An unknown exchange name ends it in get_factory;
\* otherwise the adapter is built, the operation builds its request, the requester
\* prepares it and the coroutine suspends in `await client.request(...)`.
Invoke(c) ==
    /\ pc = "idle"
    /\ outcome.kind = "none"
    /\ invoked < MaxCalls
    /\ call' = c
    /\ net' = NoNet
    /\ wire' = <<>>
    /\ response' = NoResponse
    /\ LET factory == get_factory(c.exchange)
       IN  IF factory.exc # ""
           THEN /\ pc' = "idle"
                /\ adapter' = NoAdapter
                /\ req' = NoRequest
                /\ outcome' = Error(factory.exc)
                /\ result' = envelope(outcome', now)
                /\ repeated' = FALSE
                /\ UNCHANGED <<invoked, nonces, sessions>>
           ELSE LET exchange == create_exchange(factory.v)
                IN  \E s \in {requester_send(exchange.requester,
                                             build(exchange.cls, c, now), now, Len(nonces))} :
                    /\ pc' = "await"
                    /\ adapter' = [exchange EXCEPT !.requester = s.requester]
                    /\ req' = s.request
                    /\ outcome' = NoOutcome
                    /\ result' = NoOutcome
                    /\ invoked' = invoked + 1
                    /\ repeated' = (invoked > 0 /\ c = call)
                    /\ nonces' = nonces \o s.nonces
                    /\ sessions' = Append(sessions, AsyncClient)
    /\ UNCHANGED <<now, issued, signing, conversion, tasks>>

\* The network exchange ends and the operation runs to its end.
Complete(n) ==
    /\ pc = "await"
    /\ net' = n
    /\ LET s == send(req, n)
           o == IF s.exc # "" THEN Error(s.exc) ELSE resume(adapter.cls, call, s.v, now)
       IN  /\ wire' = s.sent
           /\ issued' = issued + Len(s.sent)
           /\ response' = s.v
           /\ outcome' = o
           /\ result' = envelope(outcome', now)
           /\ sessions' = [sessions EXCEPT ![Len(sessions)] =
                              aexit([@ EXCEPT !.requests = Len(s.sent)], s.exc)]
    /\ pc' = "idle"
    /\ UNCHANGED <<call, adapter, req, now, invoked, repeated, nonces, signing, conversion,
                   tasks>>

Respond ==
    /\ pc = "await"
    /\ \E r \in Responses(call) : Complete([kind |-> "response", response |-> r])

TransportError == Complete([kind |-> "RequestError", response |-> NoResponse])

\* The tool's result is with its caller: the adapter, its requester, the request
\* and the response were locals of the invocation and are gone.
Release ==
    /\ pc = "idle"
    /\ outcome.kind # "none"
    /\ adapter' = NoAdapter
    /\ req' = NoRequest
    /\ net' = NoNet
    /\ wire' = <<>>
    /\ response' = NoResponse
    /\ outcome' = NoOutcome
    /\ result' = NoOutcome
    /\ UNCHANGED <<pc, call, now, invoked, issued, repeated, nonces, signing, conversion, sessions, tasks>>

Tick ==
    /\ now < ClockStart + MaxTicks * ClockStep
    /\ now' = now + ClockStep
    /\ UNCHANGED <<pc, call, adapter, req, net, wire, response, outcome, result, invoked,
                   issued, repeated, nonces, signing, conversion, sessions, tasks>>

Next ==
    \/ \E c \in Calls : Invoke(c)
    \/ Respond
    \/ TransportError
    \/ Release
    \/ Tick

Spec == Init /\ [][Next]_vars

\* An adapter taken alone: the caller keeps the instance create_exchange gave and
\* calls one operation after another on it.
Reuse(c) ==
    /\ pc = "idle"
    /\ outcome.kind # "none"
    /\ adapter # NoAdapter
    /\ invoked < MaxCalls
    /\ c.exchange \in DOMAIN factories
    /\ create_exchange(factories[c.exchange]).cls = adapter.cls
    /\ \E s \in {requester_send(adapter.requester, build(adapter.cls, c, now), now,
                                Len(nonces))} :
          /\ pc' = "await"
          /\ call' = c
          /\ adapter' = [adapter EXCEPT !.requester = s.requester]
          /\ req' = s.request
          /\ net' = NoNet
          /\ wire' = <<>>
          /\ response' = NoResponse
          /\ outcome' = NoOutcome
          /\ result' = NoOutcome
          /\ invoked' = invoked + 1
          /\ repeated' = (c = call)
          /\ nonces' = nonces \o s.nonces
          /\ sessions' = Append(sessions, AsyncClient)
    /\ UNCHANGED <<now, issued, signing, conversion, tasks>>

AdapterSpec ==
    Init /\ [][\/ \E c \in {k \in Calls : k.op \in {"get_balances", "get_order",
                                                     "place_order", "cancel_order"}} :
                     Invoke(c) \/ Reuse(c)
               \/ Respond
               \/ TransportError
               \/ Tick]_vars

\* BinanceAuth.generate_signature taken alone, on every query string and body up
\* to MaxText characters

RECURSIVE Texts(_)
Texts(n) ==
    IF n = 0 THEN {""} ELSE Texts(n - 1) \cup {s \o c : s \in Texts(n - 1), c \in {"a", "&"}}

SignInit ==
    /\ Loaded
    /\ conversion = [iso_date |-> "", tz |-> "", timestamp |-> Ok(None),
                     iso |-> Ok(None), created_at |-> Ok(None), done |-> FALSE]
    /\ signing \in {[query_string |-> q, payload_string |-> p, signature |-> ""] :
                        q \in Texts(MaxText), p \in Texts(MaxText)}

Sign ==
    /\ signing.signature = ""
    /\ signing' = [signing EXCEPT !.signature =
                      BinanceAuth_generate_signature(signing.query_string,
                                                     signing.payload_string)]
    /\ UNCHANGED <<pc, call, adapter, req, net, wire, response, outcome, result, now,
                   invoked, issued, repeated, nonces, conversion, sessions, tasks>>

SignSpec == SignInit /\ [][Sign]_vars

\* The two conversions of utils.py taken alone: an ISO-8601 literal and a zone
\* name are given, the literal is converted to epoch milliseconds and back in
\* that zone, and an Upbit order created at the literal is normalized.
IsoInit ==
    LET dates   == {"2024-06-13", "2024-05-31", "2024-06-30", "2024-07-01", "2024-06-31"}
        times   == {"10:26:21", "00:00:00", "23:59:59", "24:00:00"}
        offsets == {"+09:00", "+00:00", "+05:30", "-04:00"}
    IN  /\ Loaded
        /\ signing = [query_string |-> "", payload_string |-> "", signature |-> ""]
        /\ conversion \in
              {[iso_date |-> d \o "T" \o t \o o, tz |-> z, timestamp |-> Ok(None),
                iso |-> Ok(None), created_at |-> Ok(None), done |-> FALSE] :
                   d \in dates, t \in times, o \in offsets,
                   z \in {"Asia/Seoul", "UTC", "Asia/Kolkata", "America/New_York"}}

Convert ==
    /\ ~conversion.done
    /\ \E timestamp \in {iso_to_timestamp(Str(conversion.iso_date))} :
          conversion' =
              [conversion EXCEPT
                  !.timestamp  = timestamp,
                  !.iso        = IF timestamp.exc # "" THEN timestamp
                                 ELSE timestamp_to_iso(timestamp.v, conversion.tz),
                  !.created_at =
                      Upbit_order([Upbit_wire_order("wait", "bid") EXCEPT
                                      !.o[7] = <<"created_at", Str(conversion.iso_date)>>]),
                  !.done       = TRUE]
    /\ UNCHANGED <<pc, call, adapter, req, net, wire, response, outcome, result, now,
                   invoked, issued, repeated, nonces, signing, sessions, tasks>>

IsoSpec == IsoInit /\ [][Convert]_vars

\* Concurrent tool calls taken alone.  The event loop runs MaxTasks coroutines and
\* may switch between them at every await; the steps of a call up to its network
\* wait are taken one by one (what follows the wait works on locals of the call).
\* Objects live on a heap and are named by their position in it, so that two
\* calls holding the same object can be told from two calls holding equal ones.

\* one object a class, handed out again on every later call of the class
new_singleton(heap, object) ==
    IF \E ref \in 1..Len(heap) : heap[ref].cls = object.cls
    THEN [heap |-> heap,
          ref  |-> CHOOSE ref \in 1..Len(heap) : heap[ref].cls = object.cls]
    ELSE [heap |-> Append(heap, object), ref |-> Len(heap) + 1]

\* a class is called: a new object is put on the heap
new(heap, object) ==
    [heap |-> Append(heap, object), ref |-> Len(heap) + 1]

\* the tool body up to requester.send: get_factory(name).create_exchange() builds
\* the requester and the adapter, the operation builds the arguments of its request
Start(i, c) ==
    /\ tasks.at[i].pc = "new"
    /\ LET factory == get_factory(c.exchange)
       IN  IF factory.exc # ""
           THEN tasks' = [tasks EXCEPT !.at[i].pc = "done", !.at[i].call = c]
           ELSE LET exchange  == create_exchange(factory.v)
                    requester == new(tasks.heap, exchange.requester @@ [writers |-> {}])
                IN  tasks' = [tasks EXCEPT
                                 !.heap = requester.heap,
                                 !.at[i] = [@ EXCEPT
                                     !.pc = "built", !.call = c,
                                     !.adapter = [cls |-> exchange.cls,
                                                  requester |-> requester.ref],
                                     !.args = build(exchange.cls, c, now)]]
    /\ UNCHANGED <<pc, call, adapter, req, net, wire, response, outcome, result, now,
                   invoked, issued, repeated, nonces, signing, conversion, sessions>>

\* UpbitRequester.send, its first statement: self.authorization = generate_auth(...)
Authorize(i) ==
    LET task == tasks.at[i]
        ref  == task.adapter.requester
    IN  /\ task.pc = "built"
        /\ tasks.heap[ref].cls = "UpbitRequester"
        /\ tasks' = [tasks EXCEPT
                         !.drawn = @ + 1,
                         !.heap[ref] = [@ EXCEPT
                             !.authorization =
                                 [cls |-> "BearerAuth",
                                  token |-> UpbitRequester_generate_auth(
                                               task.args.params, task.args.json,
                                               uuid4(tasks.drawn))],
                             !.writers = @ \cup {i}],
                         !.at[i] = [@ EXCEPT
                             !.pc = "authorized", !.nonce = uuid4(tasks.drawn),
                             !.overlap = \E j \in 1..MaxTasks :
                                            j # i /\ tasks.at[j].pc = "authorized"]]
        /\ UNCHANGED <<pc, call, adapter, req, net, wire, response, outcome, result, now,
                       invoked, issued, repeated, nonces, signing, conversion, sessions>>

\* HTTPRequester.send up to the network wait: client.request(..., auth=self.authorization)
\* reads the authorization the requester holds at that moment
Issue(i) ==
    LET task == tasks.at[i]
        ref  == task.adapter.requester
    IN  /\ \/ task.pc = "authorized"
           \/ task.pc = "built" /\ tasks.heap[ref].cls # "UpbitRequester"
        /\ tasks' = [tasks EXCEPT
                         !.at[i] = [@ EXCEPT
                             !.pc = "sent",
                             !.request = client_request(tasks.heap[ref].authorization,
                                                        task.args, now)]]
        /\ UNCHANGED <<pc, call, adapter, req, net, wire, response, outcome, result, now,
                       invoked, issued, repeated, nonces, signing, conversion, sessions>>

ConcurrentSpec ==
    Init /\ [][\E i \in 1..MaxTasks :
                  \/ \E c \in {k \in Calls : k.op \in {"get_balances", "get_order",
                                                      "get_tickers"}} : Start(i, c)
                  \/ Authorize(i)
                  \/ Issue(i)]_vars

TypeOK ==
    /\ pc \in {"idle", "await"}
    /\ call \in Calls \cup {NoCall}
    /\ call.op \in {"get_symbols", "get_tickers", "get_balances", "get_open_orders",
                   "get_closed_orders", "get_order", "get_order_book", "place_order",
                   "cancel_order", ""}
    /\ invoked \in 0..MaxCalls
    /\ adapter.cls \in {"", "Binance", "GateIO", "Upbit"}
    /\ result.kind \in {"none", "return", "raise"}
    /\ Len(nonces) <= invoked
    /\ issued \in 0..MaxCalls
    /\ outcome.kind \in {"none", "return", "raise"}
    /\ Len(sessions) = invoked
    /\ \A i \in 1..Len(sessions) : sessions[i].requests \in 0..2
    /\ conversion.done \in BOOLEAN
    /\ \A i \in 1..MaxTasks : tasks.at[i].pc \in {"new", "built", "authorized", "sent", "done"}
    /\ tasks.drawn \in 0..MaxTasks
    /\ Len(tasks.heap) <= MaxTasks

-----------------------------------------------------------------------------
(* Properties *)

\* an invocation has run to its end
Ended == pc = "idle" /\ outcome.kind # "none"

IsFault(o) == o.kind = "raise" /\ o.cls \in Faults

\* the Orders the last invocation returned
ReturnedOrders ==
    IF ~Ended \/ outcome.kind # "return" THEN {}
    ELSE IF call.op \in {"get_open_orders", "get_closed_orders"}
    THEN {outcome.data[i] : i \in 1..Len(outcome.data)}
    ELSE IF call.op \in {"get_order", "place_order"}
            \/ (call.op = "cancel_order" /\ call.exchange = "binance")
    THEN {outcome.data}
    ELSE {}

\* the message path each adapter documents for its error bodies
MessagePath(exchange) ==
    CASE exchange = "binance" -> <<"msg">>
      [] exchange = "gateio"  -> <<"message">>
      [] exchange = "upbit"   -> <<"error", "message">>

\* the value a document holds at a path of keys, each key indexing one nesting level
RECURSIVE Resolves(_, _)
Resolves(doc, path) ==
    IF path = <<>> THEN TRUE
    ELSE doc.t = "dict" /\ HasKey(doc, Head(path)) /\ Resolves(Lookup(doc, Head(path)), Tail(path))

RECURSIVE ValueAt(_, _)
ValueAt(doc, path) ==
    IF path = <<>> THEN doc ELSE ValueAt(Lookup(doc, Head(path)), Tail(path))

BodyResolves ==
    /\ response.content.raw = "json"
    /\ Resolves(response.content.j, MessagePath(call.exchange))

DefaultMessage(status_code) ==
    CASE status_code = 401 -> "Authentication failed"
      [] status_code = 400 -> "Bad Request"
      [] status_code = 404 -> "Not Found"
      [] status_code = 429 -> "Rate Limit Exceeded"
      [] status_code = 500 -> "Internal Server Error"
      [] OTHER -> ""

\* C1: for every adapter and operation, a failed HTTP response (4xx or 5xx, any
\* body) ends the operation with a CryptoAPIException fault that carries a code,
\* a message and a timestamp; never another exception, never a payload.
C1_FailureRaisesFault ==
    (Ended /\ net.kind = "response" /\ is_error(response)) =>
        /\ IsFault(outcome)
        /\ outcome.code # ""
        /\ outcome.timestamp \in ClockStart..now

\* C2: _raise_for_failed_response raises one fault per status code: 401
\* Authentication, 400 BadRequest, 404 NotFound, 429 RateLimit, 500
\* InternalServerError, any other status the generic CryptoAPIException; the code
\* is the decimal string of the status and success is false.  A failed response
\* whose message extraction cannot fail always reaches the mapper and raises.
C2_StatusMapsToOneFault ==
    Ended =>
        /\ IsFault(outcome) =>
              /\ outcome.cls = (CASE response.status_code = 401 -> "AuthenticationException"
                                  [] response.status_code = 400 -> "BadRequestException"
                                  [] response.status_code = 404 -> "NotFoundException"
                                  [] response.status_code = 429 -> "RateLimitException"
                                  [] response.status_code = 500 -> "InternalServerErrorException"
                                  [] OTHER -> "CryptoAPIException")
              /\ outcome.code = ToString(response.status_code)
              /\ outcome.success = FALSE
        /\ (net.kind = "response" /\ is_error(response)
            /\ response.content.raw # "json" /\ call.exchange # "binance")
              => IsFault(outcome)

C2_Witness ==
    /\ Ended
    /\ outcome.cls = "RateLimitException"
    /\ outcome.code = "429"
    /\ response.status_code = 429

\* C3: every Order any adapter returns has status wait, done or canceled,
\* whatever status string the exchange sent.
C3_OrderStatusCanonical ==
    \A o \in ReturnedOrders : o.status \in {Str("wait"), Str("done"), Str("canceled")}

\* C4: every invocation puts exactly one HTTP request on the wire, the one the
\* operation built, whether it ends in a payload or in a fault; n invocations,
\* identical or not, issue n requests.
C4_OneRequestPerInvocation ==
    /\ pc = "await" => issued = invoked - 1
    /\ pc = "idle" => issued = invoked
    /\ (Ended /\ adapter # NoAdapter) => wire = <<req>>

C4_Witness ==
    /\ Ended
    /\ repeated
    /\ invoked = 2
    /\ issued = 2
    /\ call.op = "place_order"
    /\ IsFault(outcome)

\* C5: when the network call fails with a transport error, send returns a
\* synthetic response with status 500 and the operation raises the
\* InternalServerError fault with code "500".
C5_TransportErrorIsFault500 ==
    (Ended /\ net.kind = "RequestError") =>
        /\ response.status_code = 500
        /\ outcome.kind = "raise"
        /\ outcome.cls = "InternalServerErrorException"
        /\ outcome.code = "500"

\* C6: a failed response whose body is absent, is not JSON or does not hold the
\* message path (a JSON array, a path through a non-object) raises a fault
\* with the non-empty default message of its status, for every status code.
C6_DefaultMessageWhenUnresolved ==
    (Ended /\ net.kind = "response" /\ is_error(response) /\ ~BodyResolves) =>
        /\ IsFault(outcome)
        /\ outcome.message.t = "str"
        /\ outcome.message.s # ""
        /\ DefaultMessage(response.status_code) # ""
              => outcome.message = Str(DefaultMessage(response.status_code))

\* C7: a failed response whose JSON body holds a string at the adapter's dotted
\* message path raises a fault whose message is that string and whose code is the
\* status as a string.
C7_MessageFromBody ==
    (/\ Ended /\ net.kind = "response" /\ is_error(response) /\ BodyResolves
     /\ ValueAt(response.content.j, MessagePath(call.exchange)).t = "str") =>
        /\ IsFault(outcome)
        /\ outcome.message = ValueAt(response.content.j, MessagePath(call.exchange))
        /\ outcome.code = ToString(response.status_code)

\* the wire order a single-order Binance operation was answered with
BinanceAnsweredOrder ==
    /\ Ended /\ net.kind = "response" /\ is_success(response)
    /\ call.exchange = "binance"
    /\ call.op \in {"get_order", "place_order", "cancel_order"}
    /\ response.content.raw = "json"
    /\ response.content.j.t = "dict"
    /\ HasKey(response.content.j, "status")

\* C8: Binance normalization maps NEW, PENDING_NEW and PARTIALLY_FILLED to wait,
\* FILLED to done and every other status string to canceled, and never fails
\* because of the status value.
C8_BinanceStatusMapping ==
    /\ BinanceAnsweredOrder =>
          /\ outcome.kind = "return"
          /\ LET ws == Lookup(response.content.j, "status").s
             IN  outcome.data.status =
                    Str(IF ws \in {"NEW", "PENDING_NEW", "PARTIALLY_FILLED"} THEN "wait"
                        ELSE IF ws = "FILLED" THEN "done"
                        ELSE "canceled")
    /\ (Ended /\ call.exchange = "binance" /\ call.op = "get_open_orders"
        /\ outcome.kind = "return") =>
          \A i \in 1..Len(outcome.data) :
              LET ws == Lookup(response.content.j.a[i], "status").s
              IN  outcome.data[i].status =
                     Str(IF ws \in {"NEW", "PENDING_NEW", "PARTIALLY_FILLED"} THEN "wait"
                         ELSE IF ws = "FILLED" THEN "done"
                         ELSE "canceled")

C8_Witness ==
    /\ BinanceAnsweredOrder
    /\ Lookup(response.content.j, "status") = Str("PARTIALLY_FILLED")
    /\ outcome.kind = "return"
    /\ outcome.data.status = Str("wait")

\* the wire order a single-order operation was answered with
AnsweredOrder ==
    IF call.exchange = "upbit" /\ call.op = "get_order"
    THEN response.content.j.a[1]
    ELSE response.content.j

\* C9: every Order any adapter returns has side bid or ask: Binance maps BUY to
\* bid and SELL to ask, GateIO maps buy to bid and sell to ask, Upbit passes its
\* side through unchanged.
C9_OrderSideCanonical ==
    /\ \A o \in ReturnedOrders : o.side \in {Str("bid"), Str("ask")}
    /\ (Ended /\ outcome.kind = "return" /\ call.op \in {"get_order", "place_order"}) =>
          LET ws == Lookup(AnsweredOrder, "side")
          IN  /\ (call.exchange = "binance" /\ ws = Str("BUY"))  => outcome.data.side = Str("bid")
              /\ (call.exchange = "binance" /\ ws = Str("SELL")) => outcome.data.side = Str("ask")
              /\ (call.exchange = "gateio" /\ ws = Str("buy"))   => outcome.data.side = Str("bid")
              /\ (call.exchange = "gateio" /\ ws = Str("sell"))  => outcome.data.side = Str("ask")
              /\ call.exchange = "upbit" => outcome.data.side = ws

C9_Witness ==
    /\ Ended /\ outcome.kind = "return"
    /\ call.exchange = "binance" /\ call.op = "get_order"
    /\ Lookup(response.content.j, "side") = Str("SELL")
    /\ outcome.data.side = Str("ask")

\* a Binance or GateIO depth document answered get_order_book
AnsweredLadders ==
    /\ Ended /\ net.kind = "response"
    /\ call.op = "get_order_book"
    /\ call.exchange \in {"binance", "gateio"}
    /\ IF call.exchange = "binance" THEN is_success(response) ELSE ~is_error(response)
    /\ response.content.raw = "json"
    /\ response.content.j \in OrderBookDocs(call.exchange)

Min(a, b) == IF a <= b THEN a ELSE b

\* C10: a Binance or GateIO OrderBook has exactly min(len(asks), len(bids)) items,
\* item i combining asks[i] with bids[i] in wire order; the longer side's excess is
\* dropped and nothing is padded.
C10_OrderBookTruncates ==
    AnsweredLadders =>
        LET asks == Lookup(response.content.j, "asks").a
            bids == Lookup(response.content.j, "bids").a
        IN  /\ outcome.kind = "return"
            /\ Len(outcome.data.items) = Min(Len(asks), Len(bids))
            /\ \A i \in 1..Len(outcome.data.items) :
                  /\ outcome.data.items[i].ask_price    = Num(NumOf(asks[i].a[1].s))
                  /\ outcome.data.items[i].ask_quantity = Num(NumOf(asks[i].a[2].s))
                  /\ outcome.data.items[i].bid_price    = Num(NumOf(bids[i].a[1].s))
                  /\ outcome.data.items[i].bid_quantity = Num(NumOf(bids[i].a[2].s))

C10_Witness ==
    /\ AnsweredLadders
    /\ Len(Lookup(response.content.j, "asks").a) = 2
    /\ Len(Lookup(response.content.j, "bids").a) = 1
    /\ outcome.kind = "return"
    /\ Len(outcome.data.items) = 1

\* a well-formed symbol document answered get_symbols with a 2xx status
AnsweredSymbols ==
    /\ Ended /\ net.kind = "response"
    /\ call.op = "get_symbols"
    /\ is_success(response)
    /\ response.content.raw = "json"
    /\ response.content.j \in SymbolDocs(call.exchange)

\* the market records of the answer, in wire order
WireSymbolRecords ==
    IF call.exchange = "binance" THEN Lookup(response.content.j, "symbols").a
    ELSE response.content.j.a

\* the wire record marks its market as not tradable (Upbit's records carry no mark)
Untradable(exchange, rec) ==
    CASE exchange = "binance" -> Lookup(rec, "status") # Str("TRADING")
      [] exchange = "gateio"  -> Lookup(rec, "trade_status") # Str("tradable")
      [] exchange = "upbit"   -> FALSE

WireSymbolOf(exchange, rec) ==
    CASE exchange = "binance" -> Lookup(rec, "symbol")
      [] exchange = "gateio"  -> Lookup(rec, "id")
      [] exchange = "upbit"   -> Lookup(rec, "market")

\* C11: on every adapter get_symbols returns only tradable pairs: a market whose
\* wire record marks it as not tradable (Binance status other than TRADING, GateIO
\* trade_status other than tradable) is not among the returned pairs.
C11_SymbolsOnlyTradable ==
    AnsweredSymbols =>
        /\ outcome.kind = "return"
        /\ \A i \in 1..Len(WireSymbolRecords) :
              Untradable(call.exchange, WireSymbolRecords[i]) =>
                  \A k \in 1..Len(outcome.data) :
                      outcome.data[k].symbol
                          # WireSymbolOf(call.exchange, WireSymbolRecords[i])

MarketFilters == {"symbol", "currency_pair", "markets"}

\* C13: on every adapter get_tickers("") issues a request with no market filter
\* parameter and returns a list with one Ticker per wire record; with a non-empty
\* symbol the request is filtered to that market.
C13_TickersScope ==
    (call.op = "get_tickers" /\ req # NoRequest) =>
        /\ call.symbol = "" =>
              \/ req.params = None
              \/ \A k \in MarketFilters : ~HasKey(req.params, k)
        /\ call.symbol # "" =>
              /\ req.params # None
              /\ \E k \in MarketFilters :
                    HasKey(req.params, k) /\ Lookup(req.params, k) = Str(call.symbol)
        /\ (/\ Ended /\ net.kind = "response" /\ call.symbol = ""
            /\ is_success(response)
            /\ response.content.raw = "json"
            /\ response.content.j \in TickerDocs(call.exchange)
            /\ response.content.j.t = "list") =>
              /\ outcome.kind = "return"
              /\ Len(outcome.data) = Len(response.content.j.a)

\* the names of the headers of a prepared request
HeaderNames(request) == {request.headers[i][1] : i \in 1..Len(request.headers)}

\* C14: get_factory with a name outside {upbit, gateio, binance} fails with a
\* lookup error (KeyError) with no requester or adapter built and no request
\* issued; with one of the three names the adapter built is that exchange's,
\* wired to that exchange's own signing strategy and to no other.
C14_FactoryLookup ==
    /\ (call # NoCall /\ call.exchange \notin {"upbit", "gateio", "binance"}) =>
          /\ pc = "idle"
          /\ adapter = NoAdapter
          /\ req = NoRequest /\ net = NoNet /\ wire = <<>>
          /\ issued = invoked
          /\ outcome.kind # "none" =>
                outcome.kind = "raise" /\ outcome.cls = "KeyError" /\ result = outcome
    /\ (call.exchange \in {"upbit", "gateio", "binance"} /\ (pc = "await" \/ Ended)) =>
          /\ call.exchange = "binance" =>
                /\ adapter.cls = "Binance"
                /\ adapter.requester.cls = "HTTPRequester"
                /\ adapter.requester.authorization.cls = "BinanceAuth"
                /\ HeaderNames(req) = {"X-MBX-APIKEY"}
          /\ call.exchange = "gateio" =>
                /\ adapter.cls = "GateIO"
                /\ adapter.requester.cls = "HTTPRequester"
                /\ adapter.requester.authorization.cls = "GateIOAuth"
                /\ HeaderNames(req) = {"KEY", "SIGN", "Timestamp"}
          /\ call.exchange = "upbit" =>
                /\ adapter.cls = "Upbit"
                /\ adapter.requester.cls = "UpbitRequester"
                /\ adapter.requester.authorization.cls = "BearerAuth"
                /\ HeaderNames(req) = {"Authorization"}

C14_Witness ==
    /\ call.exchange = "kraken"
    /\ outcome.kind = "raise" /\ outcome.cls = "KeyError"
    /\ adapter = NoAdapter
    /\ invoked = 1 /\ issued = 1

\* C15: for every tool wrapped by envelope, a payload the operation returns comes
\* back as {success: true, code: "200", message: "OK", data: the payload,
\* timestamp}; a CryptoAPIException the operation raises comes back as the tool's
\* result, its code and message unchanged and success false; any other exception
\* reaches the caller as raised.
C15_Envelope ==
    Ended =>
        /\ outcome.kind = "return" =>
              /\ result.kind = "return"
              /\ result.success = TRUE
              /\ result.code = "200"
              /\ result.message = Str("OK")
              /\ result.data = outcome.data
              /\ result.timestamp \in ClockStart..now
        /\ IsFault(outcome) =>
              /\ result.kind = "return"
              /\ result.cls = outcome.cls
              /\ result.success = FALSE
              /\ result.code = outcome.code
              /\ result.message = outcome.message
              /\ result.timestamp = outcome.timestamp
        /\ (outcome.kind = "raise" /\ ~IsFault(outcome)) => result = outcome

C15_Witness ==
    /\ Ended
    /\ call.op = "cancel_order"
    /\ outcome.kind = "raise" /\ outcome.cls = "NotFoundException"
    /\ result.kind = "return"
    /\ result.success = FALSE
    /\ result.code = "404"

\* the prepared request carries a signature query parameter
HasSignature(request) == \E i \in 1..Len(request.query) : request.query[i][1] = "signature"

\* C16: BinanceAuth adds a signature query parameter exactly to the requests whose
\* path ends with /api/v3/order, /api/v3/openOrders, /api/v3/allOrders or
\* /api/v3/account, and every request, signed or not, carries the X-MBX-APIKEY
\* header; so get_symbols, get_tickers and get_order_book go unsigned and every
\* balance and order request goes signed.
C16_BinanceSignsAllowlist ==
    (adapter.cls = "Binance" /\ (pc = "await" \/ Ended)) =>
        /\ HasSignature(req) <=>
              \E suffix \in {"/api/v3/order", "/api/v3/openOrders", "/api/v3/allOrders",
                             "/api/v3/account"} : endswith(req.url, suffix)
        /\ HasSignature(req) <=>
              call.op \notin {"get_symbols", "get_tickers", "get_order_book"}
        /\ \E i \in 1..Len(req.headers) :
              req.headers[i] = <<"X-MBX-APIKEY", getenv("BINANCE_ACCESS_KEY")>>
        /\ Ended => wire = <<req>>

C16_Witness ==
    /\ adapter.cls = "Binance" /\ Ended
    /\ call.op = "get_order_book"
    /\ ~HasSignature(wire[1])
    /\ HeaderNames(wire[1]) = {"X-MBX-APIKEY"}
    /\ repeated

\* C17: BinanceAuth.generate_signature(query, body) depends only on the
\* concatenation query + body under the secret: every split of one string into a
\* query part and a body part, the all-query and the all-body split included,
\* gives the same signature, and inputs whose concatenations differ are signed
\* over different messages.
C17_SignatureOfConcatenation ==
    signing.signature # "" =>
        LET text == signing.query_string \o signing.payload_string
        IN  /\ signing.signature = hmac_hexdigest(getenv("BINANCE_SECRET_KEY"), text, "sha256")
            /\ BinanceAuth_generate_signature(text, "") = signing.signature
            /\ BinanceAuth_generate_signature("", text) = signing.signature
            /\ \A q \in Texts(MaxText), p \in Texts(MaxText) :
                  (q \o p = text) <=> (BinanceAuth_generate_signature(q, p) = signing.signature)

C17_Witness ==
    /\ signing.query_string = "a&"
    /\ signing.payload_string = "a"
    /\ signing.signature = BinanceAuth_generate_signature("a", "&a")

\* the value of a header of a prepared request, "" if it has none of that name
Header(request, name) ==
    IF name \in HeaderNames(request)
    THEN request.headers[CHOOSE i \in 1..Len(request.headers) :
                             request.headers[i][1] = name][2]
    ELSE ""

\* the signature GateIO expects for a request and a Timestamp header
GateIOSignatureOver(request, timestamp) ==
    hmac_hexdigest(getenv("GATEIO_SECRET_KEY"),
                   request.method \o "\n" \o request.url \o "\n"
                       \o unquote_query(request.query) \o "\n"
                       \o hexdigest("sha512", request.content) \o "\n" \o timestamp,
                   "sha512")

\* every GateIO request carries KEY, SIGN and Timestamp, SIGN being over its own
\* method, path, decoded query, body hash and the Timestamp it carries
GateIOSigned ==
    (adapter.cls = "GateIO" /\ (pc = "await" \/ Ended)) =>
        /\ {"KEY", "SIGN", "Timestamp"} \subseteq HeaderNames(req)
        /\ Header(req, "KEY") = getenv("GATEIO_ACCESS_KEY")
        /\ Header(req, "SIGN") = GateIOSignatureOver(req, Header(req, "Timestamp"))
        /\ Ended => wire = <<req>>

\* C18: GateIOAuth signs every request whatever the endpoint: each request carries
\* KEY, SIGN and Timestamp headers, SIGN is over that request's own method, path,
\* decoded query string, body hash and timestamp joined by newlines in that order,
\* the timestamp signed is the one sent in the Timestamp header, and that value is
\* the Unix time in whole seconds.
C18_GateIOSignsEveryRequest ==
    /\ GateIOSigned
    /\ (adapter.cls = "GateIO" /\ (pc = "await" \/ Ended)) =>
          \E seconds \in (ClockStart \div 1000)..(now \div 1000) :
              Header(req, "Timestamp") \in {ToString(seconds), ToString(seconds) \o ".0"}

CancelAnswered ==
    /\ Ended /\ net.kind = "response"
    /\ call.op = "cancel_order"

\* C20: cancel_order on GateIO and Upbit returns True whenever the response is not
\* an error, whatever its body, and raises a fault (it never returns False) when
\* the response is an error; on Binance it returns the normalized Order of the
\* response body, created_at being the body's transactTime.
C20_CancelOrderResult ==
    CancelAnswered =>
        /\ (call.exchange \in {"gateio", "upbit"} /\ ~is_error(response)) =>
              outcome = Return(Bool(TRUE))
        /\ (call.exchange \in {"gateio", "upbit"} /\ is_error(response)) =>
              IsFault(outcome)
        /\ (/\ call.exchange = "binance"
            /\ is_success(response)
            /\ response.content.raw = "json"
            /\ response.content.j \in WireOrders("binance", "transactTime")) =>
              /\ outcome.kind = "return"
              /\ outcome.data.created_at = Lookup(response.content.j, "transactTime")
              /\ outcome.data.order_id = Str("7")
              /\ outcome.data.side \in {Str("bid"), Str("ask")}


\* the instants the clock can show
Instants == {ClockStart + k * ClockStep : k \in 0..MaxTicks}

\* C21: normalization is deterministic: an invocation that returns yields, for
\* the response document it received, the same canonical output in every field,
\* timestamp fields included, at whatever instant it runs.
C21_NormalizationDeterministic ==
    (Ended /\ adapter # NoAdapter /\ net.kind = "response" /\ outcome.kind = "return") =>
        \A t \in Instants : resume(adapter.cls, call, response, t) = outcome


\* the UTC offset a zone keeps at the instants converted, as ISO-8601 writes it,
\* and the seconds east of UTC an offset so written stands for
ZoneOffset(tz) ==
    CASE tz = "Asia/Seoul"       -> "+09:00"
      [] tz = "UTC"              -> "+00:00"
      [] tz = "Asia/Kolkata"     -> "+05:30"
      [] tz = "America/New_York" -> "-04:00"

OffsetSeconds(text) ==
    CASE text = "+09:00" -> 32400
      [] text = "+00:00" -> 0
      [] text = "+05:30" -> 19800
      [] text = "-04:00" -> -14400

\* C22: iso_to_timestamp converts an ISO-8601 string with a UTC offset to the
\* epoch milliseconds of the same instant ("2024-06-13T10:26:21+09:00" gives
\* 1718241981000, held here as 241981000), timestamp_to_iso with the zone of the
\* original offset gives the string back for whole-second inputs, and an Upbit
\* order's created_at is iso_to_timestamp of the wire value.
C22_IsoRoundTrip ==
    (conversion.done /\ conversion.timestamp.exc = "") =>
        LET s     == conversion.iso_date
            ts    == conversion.timestamp.v
            atUTC == iso_to_timestamp(Str(SubSeq(s, 1, 19) \o "+00:00"))
        IN  /\ (s = "2024-06-13T10:26:21+09:00") => ts = Num(241981000)
            \* the instant: the same wall clock read at UTC is later by the offset
            /\ atUTC.exc = ""
            /\ atUTC.v.n - ts.n = 1000 * OffsetSeconds(SubSeq(s, 20, 25))
            \* the inverse in the zone of the original offset
            /\ (ZoneOffset(conversion.tz) = SubSeq(s, 20, 25)) =>
                  conversion.iso = Ok(Str(s))
            \* in any zone the string written denotes the instant converted
            /\ conversion.iso.exc = ""
            /\ iso_to_timestamp(conversion.iso.v) = conversion.timestamp
            /\ conversion.created_at.exc = ""
            /\ conversion.created_at.v.created_at = ts

C22_Witness ==
    /\ conversion.done
    /\ conversion.iso_date = "2024-06-13T10:26:21+09:00"
    /\ conversion.tz = "Asia/Seoul"
    /\ conversion.timestamp = Ok(Num(241981000))
    /\ conversion.iso = Ok(Str("2024-06-13T10:26:21+09:00"))


\* C23: every session opened by HTTPRequester.send carries exactly one request and
\* is closed once send has returned or raised, whether the response arrived, the
\* transport failed or the handler of the transport error failed itself; the only
\* session that may be open is the one of the send still waiting for the network,
\* so with no send in progress no session is open.
C23_SessionsClosed ==
    /\ Len(sessions) = invoked
    /\ \A i \in 1..Len(sessions) :
          IF i = Len(sessions) /\ pc = "await"
          THEN ~sessions[i].is_closed /\ sessions[i].requests = 0
          ELSE sessions[i].is_closed /\ sessions[i].requests = 1
    /\ (Ended /\ adapter # NoAdapter) =>
          /\ wire = <<req>>
          /\ sessions[Len(sessions)].is_closed

\* two sends are over, the last one ended in the failing handler of a transport error
C23_Witness ==
    /\ Ended
    /\ net.kind = "RequestError"
    /\ outcome.cls = "AttributeError"
    /\ Len(sessions) = 2
    /\ \A i \in 1..2 : sessions[i].is_closed


\* C24: under every interleaving of concurrent tool calls each call has built its
\* own requester and adapter, no object is written by two calls, and the
\* Authorization header of an Upbit request is the bearer token generated from
\* that call's own params or JSON body with the nonce that call drew.
C24_CallsShareNothing ==
    LET started == {i \in 1..MaxTasks : tasks.at[i].adapter.requester # 0}
    IN  /\ \A i, j \in started :
              i # j => tasks.at[i].adapter.requester # tasks.at[j].adapter.requester
        /\ \A ref \in 1..Len(tasks.heap) : Cardinality(tasks.heap[ref].writers) <= 1
        /\ \A i \in started :
              (tasks.at[i].pc = "sent" /\ tasks.at[i].adapter.cls = "Upbit") =>
                  /\ tasks.at[i].nonce # ""
                  /\ Header(tasks.at[i].request, "Authorization") =
                        "Bearer " \o UpbitRequester_generate_auth(
                                        tasks.at[i].args.params, tasks.at[i].args.json,
                                        tasks.at[i].nonce)

\* two Upbit calls with different parameters have both sent their request, and one
\* stored its token while the other was between storing and sending its own
C24_Witness ==
    /\ \A i \in 1..2 : tasks.at[i].pc = "sent" /\ tasks.at[i].adapter.cls = "Upbit"
    /\ tasks.at[1].args.params # tasks.at[2].args.params
    /\ \E i \in 1..2 : tasks.at[i].overlap


\* C25: an adapter instance carries nothing from one operation to the next.  After
\* any operations on it, it is the adapter create_exchange built but for the
\* authorization its requester holds; the request of the operation in progress is
\* the one a newly built adapter sends for the same arguments at some instant of
\* the clock, and the outcome is the one the operation's arguments, the response
\* and the clock give.
C25_NoCrossCallState ==
    (adapter # NoAdapter) =>
        LET built == create_exchange(factories[call.exchange])
            drawn == Len(nonces) - (IF built.requester.cls = "UpbitRequester" THEN 1 ELSE 0)
        IN  /\ adapter.cls = built.cls
            /\ adapter.requester.cls = built.requester.cls
            /\ built.requester.cls # "UpbitRequester" => adapter = built
            /\ pc = "await" =>
                  \E t \in Instants :
                      req = requester_send(built.requester, build(built.cls, call, t), t,
                                           drawn).request
            /\ (Ended /\ net.kind = "response") =>
                  \E t \in Instants : outcome = resume(built.cls, call, response, t)

\* the second operation on one Upbit adapter has ended, with other arguments than
\* the first
C25_Witness ==
    /\ Ended
    /\ invoked = 2
    /\ ~repeated
    /\ adapter.cls = "Upbit"
    /\ net.kind = "response"
    /\ call.op = "get_order"


\* the canonical status of a GateIO wire status, "" where GateIO's map has none
GateIOStatus(ws) ==
    CASE ws = Str("open")      -> Str("wait")
      [] ws = Str("closed")    -> Str("done")
      [] ws = Str("cancelled") -> Str("cancel")
      [] OTHER                 -> Str("")

\* the wire orders a GateIO order operation was answered with, in order
GateIOAnsweredOrders ==
    IF ~(Ended /\ call.exchange = "gateio" /\ net.kind = "response" /\ ~is_error(response)
         /\ response.content.raw = "json")
    THEN <<>>
    ELSE IF call.op \in {"get_open_orders", "get_closed_orders"}
            /\ response.content.j.t = "list"
            /\ \A i \in 1..Len(response.content.j.a) :
                  /\ response.content.j.a[i].t = "dict"
                  /\ HasKey(response.content.j.a[i], "status")
    THEN response.content.j.a
    ELSE IF call.op \in {"get_order", "place_order"} /\ response.content.j.t = "dict"
            /\ HasKey(response.content.j, "status")
    THEN <<response.content.j>>
    ELSE <<>>

C27_OnlySuccessIsNormalized ==
    (Ended /\ adapter # NoAdapter /\ net.kind = "response") =>
        /\ outcome.kind = "return" => is_success(response)
        /\ ~is_success(response) => IsFault(outcome)


\* the side field of the order request a Binance or GateIO place_order put together
SideSent ==
    IF adapter.cls = "Binance" THEN Lookup(req.params, "side")
    ELSE Lookup(req.json, "side")

\* C28: place_order on Binance and GateIO sends a buy order exactly when side is
\* "bid"; with any other side, one outside {bid, ask} included, the call is not
\* rejected: an order request is sent, and it is a sell order.
C28_OnlyBidBuys ==
    (call.op = "place_order" /\ adapter.cls \in {"Binance", "GateIO"}) =>
        /\ req.method = "POST"
        /\ SideSent = Str(IF adapter.cls = "Binance"
                          THEN (IF call.side = "bid" THEN "BUY" ELSE "SELL")
                          ELSE (IF call.side = "bid" THEN "buy" ELSE "sell"))
        /\ Ended => wire = <<req>>

\* a GateIO place_order with side "buy" has put a sell order on the wire
C28_Witness ==
    /\ Ended
    /\ call.op = "place_order" /\ call.side = "buy"
    /\ adapter.cls = "GateIO"
    /\ Len(wire) = 1
    /\ Lookup(wire[1].json, "side") = Str("sell")


\* the order request an Upbit place_order put together has the given vocabulary
UpbitShape(ord_type, volume, price) ==
    /\ Lookup(req.json, "ord_type") = Str(ord_type)
    /\ Lookup(req.json, "volume") = volume
    /\ Lookup(req.json, "price") = price

\* C29: Upbit place_order sends a limit order as ord_type limit with volume = amount
\* and price = price, a market bid as ord_type price with volume null and
\* price = price, and a market ask as ord_type market with volume = amount and
\* price null; side and market are sent unchanged, and the request always has
\* one of these three shapes.
C29_UpbitOrderShapes ==
    (call.op = "place_order" /\ adapter.cls = "Upbit") =>
        LET limit      == UpbitShape("limit", Num(call.amount), Num(call.price))
            market_bid == UpbitShape("price", None, Num(call.price))
            market_ask == UpbitShape("market", Num(call.amount), None)
        IN  /\ call.order_type = "limit" => limit
            /\ (call.order_type = "market" /\ call.side = "bid") => market_bid
            /\ (call.order_type = "market" /\ call.side = "ask") => market_ask
            /\ Lookup(req.json, "side") = Str(call.side)
            /\ Lookup(req.json, "market") = Str(call.symbol)
            /\ limit \/ market_bid \/ market_ask


\* the wire orders a Binance get_closed_orders was answered with, in order
BinanceAnsweredClosed ==
    IF Ended /\ call.exchange = "binance" /\ call.op = "get_closed_orders"
       /\ net.kind = "response" /\ is_success(response)
       /\ response.content.raw = "json" /\ response.content.j.t = "list"
       /\ \A i \in 1..Len(response.content.j.a) :
             /\ response.content.j.a[i].t = "dict"
             /\ HasKey(response.content.j.a[i], "status")
    THEN response.content.j.a
    ELSE <<>>

====
